---- MODULE Spec2Model ----
(***************************************************************************)
(* A model of the BVH viewer: the BVHParser (parse, parseHierarchy,        *)
(* parseMotion) and the viewer (BVHViewer of main.js, and the ModelViewer  *)
(* of the two multi-format variants) with its load path, forward-          *)
(* kinematics walk (updateFrame), scale normalisation and playback loop.   *)
(*                                                                         *)
(* Numbers.  The code computes in IEEE doubles.  The model computes in     *)
(* integers and holds the one non-number, NaN, as a marker value that      *)
(* every arithmetic operator propagates and every comparison rejects, as   *)
(* JavaScript does.  A value read past the end of an array (undefined)     *)
(* becomes NaN as soon as arithmetic touches it, so frame values and       *)
(* offsets hold NaN for it.  Rotation angles are multiples of 90 degrees,  *)
(* for which sine and cosine are taken as exact.  Quotients (the scale)    *)
(* are held as fractions.                                                  *)
(*                                                                         *)
(* Text.  A file's content is a sequence of lines, a line a sequence of    *)
(* whitespace-separated tokens (the empty sequence is a blank line), a     *)
(* token a string.  Tokens are separated by single blanks.                 *)
(***************************************************************************)
EXTENDS Integers, Sequences, FiniteSets, TLC

(***************************************************************************)
(* Bounds of the model.                                                    *)
(***************************************************************************)
\* numerals -MaxNumeral..MaxNumeral can be written in a text
MaxNumeral == 100

(***************************************************************************)
(* Numbers.                                                                *)
(***************************************************************************)
\* the non-number marker produced by parseFloat / parseInt of a non-numeral
NaN == -99999

\* the value of a missing array element or capture (parts[k] past the end)
Undefined == "undefined"

IsNum(a) == a # NaN

Add(a, b) == IF a = NaN \/ b = NaN THEN NaN ELSE a + b

Sub(a, b) == IF a = NaN \/ b = NaN THEN NaN ELSE a - b

Mul(a, b) == IF a = NaN \/ b = NaN THEN NaN ELSE a * b

\* a < b in JavaScript: false when either side is NaN
Lt(a, b) == a # NaN /\ b # NaN /\ a < b

\* a >= b in JavaScript: false when either side is NaN
Ge(a, b) == a # NaN /\ b # NaN /\ a >= b

NumeralRange == (0 - MaxNumeral)..MaxNumeral

\* the decimal numerals of the model's alphabet and their values
NumeralValue ==
    [t \in {ToString(n) : n \in NumeralRange} |->
        CHOOSE n \in NumeralRange : ToString(n) = t]

\* the numerals made of digits only: what the pattern \d+ matches
DigitTokens == {ToString(n) : n \in 0..MaxNumeral}

\* the tokens made of digits and dots only: what the pattern [\d.]+ matches
DigitDotTokens == DigitTokens \cup {"."}

\* parseFloat(token): the numeral's value, NaN for anything else
parseFloat(tok) == IF tok \in DOMAIN NumeralValue THEN NumeralValue[tok] ELSE NaN

\* parseInt(token): on the alphabet's integer numerals the same conversion
parseInt(tok) == IF tok \in DOMAIN NumeralValue THEN NumeralValue[tok] ELSE NaN

(***************************************************************************)
(* Lines and tokens.                                                       *)
(***************************************************************************)
\* parts[k] of line.split(/\s+/), k counted from 0 as in the code
Part(parts, k) == IF k + 1 <= Len(parts) THEN parts[k + 1] ELSE Undefined

\* lines[index], index counted from 0 as in the code
LineAt(lines, index) == lines[index + 1]

\* currentLine.startsWith(keyword) for a one-word keyword
StartsWith(line, keyword) == Len(line) >= 1 /\ line[1] = keyword

\* currentLine.startsWith('End Site')
StartsWithEndSite(line) == Len(line) >= 2 /\ line[1] = "End" /\ line[2] = "Site"

\* parts.slice(from, to), both counted from 0: a NaN `to` is 0, a negative one
\* counts from the end, one past the end is cut to the length
Slice(parts, from, to) ==
    LET hi == IF to = NaN THEN 0
              ELSE IF to < 0 THEN (IF Len(parts) + to < 0 THEN 0 ELSE Len(parts) + to)
              ELSE IF to > Len(parts) THEN Len(parts) ELSE to
    IN  IF hi <= from THEN << >> ELSE SubSeq(parts, from + 1, hi)

\* a line as a template literal prints it: its tokens, one blank between them
RECURSIVE LineText(_)
LineText(line) ==
    IF line = << >> THEN ""
    ELSE IF Len(line) = 1 THEN line[1]
    ELSE line[1] \o " " \o LineText(Tail(line))

\* content.split('\n').map(trim).filter(line => line): blank lines dropped
SplitLines(content) == SelectSeq(content, LAMBDA line : line # << >>)

(***************************************************************************)
(* BVHParser.parseHierarchy                                                *)
(***************************************************************************)
NoNode == [name |-> "", type |-> "", offset |-> <<0, 0, 0>>,
           channels |-> << >>, children |-> << >>]

\* a faulty variant of NodeError: nothing is thrown and an empty node returned
NodeErrorIgnored(msg, index) ==
    [ok |-> TRUE, error |-> "", node |-> NoNode, totalChannels |-> 0, index |-> index]

\* throw new Error(msg) in parseNode
NodeError(msg, index) ==
    [ok |-> FALSE, error |-> msg, node |-> NoNode, totalChannels |-> 0, index |-> index]

\* totalChannels += numChannels
AddChannels(totalChannels, numChannels) == Add(totalChannels, numChannels)

\* a faulty variant of AddChildChannels: the child's total is not added
AddChildChannelsDropped(totalChannels, childTotal) == totalChannels

\* totalChannels += childResult.totalChannels
AddChildChannels(totalChannels, childTotal) == Add(totalChannels, childTotal)

\* a faulty variant of closeNode: a node that is not closed by '}' is an error
closeNodeStrict(lines, index, node, totalChannels) ==
    IF index < Len(lines) /\ LineAt(lines, index) = <<"}">>
    THEN [ok |-> TRUE, error |-> "", node |-> node, totalChannels |-> totalChannels,
          index |-> index + 1]
    ELSE NodeError("Expected '}'", index)

\* the end of parseNode: if (lines[index] === '}') index++, then the return
closeNode(lines, index, node, totalChannels) ==
    [ok |-> TRUE, error |-> "", node |-> node, totalChannels |-> totalChannels,
     index |-> IF index < Len(lines) /\ LineAt(lines, index) = <<"}">>
               THEN index + 1 ELSE index]

RECURSIVE parseNode(_, _, _)
RECURSIVE parseNodeBody(_, _, _, _)

\* the while loop of parseNode, then the closing-brace step
parseNodeBody(lines, index, node, totalChannels) ==
    IF index < Len(lines) /\ LineAt(lines, index) # <<"}">>
    THEN LET currentLine == LineAt(lines, index) IN
         IF StartsWith(currentLine, "OFFSET")
         THEN parseNodeBody(lines, index + 1,
                  [node EXCEPT !.offset = << parseFloat(Part(currentLine, 1)),
                                             parseFloat(Part(currentLine, 2)),
                                             parseFloat(Part(currentLine, 3)) >>],
                  totalChannels)
         ELSE IF StartsWith(currentLine, "CHANNELS")
         THEN LET numChannels == parseInt(Part(currentLine, 1)) IN
              parseNodeBody(lines, index + 1,
                  [node EXCEPT !.channels =
                       Slice(currentLine, 2, Add(2, numChannels))],
                  AddChannels(totalChannels, numChannels))
         ELSE IF StartsWith(currentLine, "JOINT") \/ StartsWithEndSite(currentLine)
         THEN LET childResult == parseNode(lines, index, FALSE) IN
              IF ~childResult.ok
              THEN childResult
              ELSE parseNodeBody(lines, childResult.index,
                       [node EXCEPT !.children = Append(@, childResult.node)],
                       AddChildChannels(totalChannels, childResult.totalChannels))
         ELSE parseNodeBody(lines, index + 1, node, totalChannels)
    ELSE closeNode(lines, index, node, totalChannels)

parseNode(lines, index, isRoot) ==
    IF index >= Len(lines)
    THEN NodeError("Unexpected end of file while parsing hierarchy at index "
                       \o ToString(index), index)
    ELSE LET parts == LineAt(lines, index)
             nodeType == Part(parts, 0)
             nodeName == IF isRoot
                         THEN Part(parts, 1)
                         ELSE IF Part(parts, 1) = Undefined THEN "End Site"
                              ELSE Part(parts, 1)
         IN  IF index + 1 >= Len(lines)
             THEN NodeError("Unexpected end of file after " \o nodeType \o " "
                                \o nodeName, index + 1)
             ELSE IF LineAt(lines, index + 1) # <<"{">>
             THEN NodeError("Expected '{' after " \o nodeType \o " " \o nodeName
                                \o ", but found: \"" \o LineText(LineAt(lines, index + 1))
                                \o "\" at line " \o ToString(index + 1), index + 1)
             ELSE parseNodeBody(lines, index + 2,
                      [name |-> nodeName, type |-> nodeType, offset |-> <<0, 0, 0>>,
                       channels |-> << >>, children |-> << >>],
                      0)

parseHierarchy(lines, startIndex) == parseNode(lines, startIndex, TRUE)

(***************************************************************************)
(* BVHParser.parseMotion                                                   *)
(***************************************************************************)
NoMotion == [frameCount |-> 0, frameTime |-> 0, frames |-> << >>]

\* framesLine.match(/Frames:\s*(\d+)/): the places where the pattern matches
FramesMatches(line) ==
    {i \in 1..(Len(line) - 1) : line[i] = "Frames:" /\ line[i + 1] \in DigitTokens}

\* frameTimeLine.match(/Frame Time:\s*([\d.]+)/)
FrameTimeMatches(line) ==
    {i \in 1..(Len(line) - 2) :
        line[i] = "Frame" /\ line[i + 1] = "Time:" /\ line[i + 2] \in DigitDotTokens}

Min(S) == CHOOSE m \in S : \A o \in S : m <= o

\* a faulty variant of ReadFrames: the loop runs to the last line, whatever
\* frameCount is
RECURSIVE ReadFramesToEnd(_, _, _, _, _)
ReadFramesToEnd(lines, index, i, frameCount, frames) ==
    IF index < Len(lines)
    THEN LET row == LineAt(lines, index)
             frameData == [k \in 1..Len(row) |-> parseFloat(row[k])]
         IN  ReadFramesToEnd(lines, index + 1, i + 1, frameCount, Append(frames, frameData))
    ELSE frames

\* the frame loop: at most frameCount lines, each split and mapped by parseFloat
RECURSIVE ReadFrames(_, _, _, _, _)
ReadFrames(lines, index, i, frameCount, frames) ==
    IF i < frameCount /\ index < Len(lines)
    THEN LET row == LineAt(lines, index)
             frameData == [k \in 1..Len(row) |-> parseFloat(row[k])]
         IN  ReadFrames(lines, index + 1, i + 1, frameCount, Append(frames, frameData))
    ELSE frames

\* what the frame loop writes with console.warn: the check that warns sits
\* inside the loop, under the loop's own condition
RECURSIVE FrameWarnings(_, _, _, _)
FrameWarnings(lines, index, i, frameCount) ==
    IF i < frameCount /\ index < Len(lines)
    THEN IF index >= Len(lines)
         THEN << [expected |-> frameCount, found |-> i] >>
         ELSE FrameWarnings(lines, index + 1, i + 1, frameCount)
    ELSE << >>

\* a faulty variant of MotionError: the error is swallowed and an empty motion returned
MotionErrorSwallowed(msg) ==
    [ok |-> TRUE, error |-> "", motionData |-> NoMotion, warnings |-> << >>]

\* throw new Error(...) in parseMotion
MotionError(msg) ==
    [ok |-> FALSE, error |-> msg, motionData |-> NoMotion, warnings |-> << >>]

\* a faulty variant of MotionResult: frameCount is the declared count
MotionResultDeclared(frameCount, frameTime, frames) ==
    [frameCount |-> frameCount, frameTime |-> frameTime, frames |-> frames]

\* the object parseMotion returns: frameCount is the number of frames read
MotionResult(frameCount, frameTime, frames) ==
    [frameCount |-> Len(frames), frameTime |-> frameTime, frames |-> frames]

parseMotion(lines, startIndex) ==
    IF startIndex >= Len(lines)
    THEN MotionError("Unexpected end of file in MOTION section")
    ELSE LET framesLine == LineAt(lines, startIndex) IN
         IF FramesMatches(framesLine) = {}
         THEN MotionError("missing or invalid Frames line")
         ELSE LET frameCount == parseInt(framesLine[Min(FramesMatches(framesLine)) + 1]) IN
              IF startIndex + 1 >= Len(lines)
              THEN MotionError("Unexpected end of file after Frames line")
              ELSE LET frameTimeLine == LineAt(lines, startIndex + 1) IN
                   IF FrameTimeMatches(frameTimeLine) = {}
                   THEN MotionError("missing or invalid Frame Time line")
                   ELSE LET frameTime ==
                                parseFloat(frameTimeLine[Min(FrameTimeMatches(frameTimeLine)) + 2])
                            frames == ReadFrames(lines, startIndex + 2, 0, frameCount, << >>)
                        IN  [ok |-> TRUE, error |-> "",
                             motionData |-> MotionResult(frameCount, frameTime, frames),
                             warnings |-> FrameWarnings(lines, startIndex + 2, 0,
                                                        frameCount)]

(***************************************************************************)
(* BVHParser.parse                                                         *)
(***************************************************************************)
ParseError(msg) ==
    [ok |-> FALSE, error |-> msg, skeleton |-> NoNode, motionData |-> NoMotion,
     totalChannels |-> 0, warnings |-> << >>]

\* lines.findIndex(line => line === 'MOTION'), counted from 0; -1 when absent
MotionIndex(lines) ==
    IF \E i \in 1..Len(lines) : lines[i] = <<"MOTION">>
    THEN Min({i \in 1..Len(lines) : lines[i] = <<"MOTION">>}) - 1
    ELSE 0 - 1

parse(content) ==
    LET lines == SplitLines(content) IN
    IF Len(lines) = 0 \/ LineAt(lines, 0) # <<"HIERARCHY">>
    THEN ParseError("missing HIERARCHY section")
    ELSE LET skeleton == parseHierarchy(lines, 1) IN
         IF ~skeleton.ok
         THEN ParseError(skeleton.error)
         ELSE LET motionIndex == MotionIndex(lines) IN
              IF motionIndex = 0 - 1
              THEN ParseError("missing MOTION section")
              ELSE LET motion == parseMotion(lines, motionIndex + 1) IN
                   IF ~motion.ok
                   THEN ParseError(motion.error)
                   ELSE [ok |-> TRUE, error |-> "", skeleton |-> skeleton.node,
                         motionData |-> motion.motionData,
                         totalChannels |-> skeleton.totalChannels,
                         warnings |-> motion.warnings]

(***************************************************************************)
(* The texts the model reads.  A document is a joint tree as an author     *)
(* writes it (kind, name, offset, the declared channel count and the       *)
(* channel names, children); Render prints it in the format of the         *)
(* HIERARCHY section.  A motion is the declared frame count, the frame     *)
(* time token and the rows of value tokens.                                *)
(***************************************************************************)
Doc(kind, name, offset, declared, channels, children) ==
    [kind |-> kind, name |-> name, offset |-> offset, declared |-> declared,
     channels |-> channels, children |-> children]

\* a node written without a CHANNELS line
NoChannelsLine == 0 - 1

EndSiteDoc(offset) == Doc("End Site", "", offset, NoChannelsLine, << >>, << >>)

RECURSIVE Render(_)
RECURSIVE RenderAll(_)
RenderAll(docs) ==
    IF docs = << >> THEN << >> ELSE Render(Head(docs)) \o RenderAll(Tail(docs))

Render(doc) ==
    << IF doc.kind = "End Site" THEN <<"End", "Site">> ELSE <<doc.kind, doc.name>> >>
    \o << <<"{">> >>
    \o << <<"OFFSET", ToString(doc.offset[1]), ToString(doc.offset[2]),
            ToString(doc.offset[3])>> >>
    \o (IF doc.declared = NoChannelsLine THEN << >>
        ELSE << <<"CHANNELS", ToString(doc.declared)>> \o doc.channels >>)
    \o RenderAll(doc.children)
    \o << <<"}">> >>

\* the channel names of a document in pre-order
RECURSIVE DocChannels(_)
RECURSIVE DocChannelsAll(_)
DocChannelsAll(docs) ==
    IF docs = << >> THEN << >> ELSE DocChannels(Head(docs)) \o DocChannelsAll(Tail(docs))

DocChannels(doc) == doc.channels \o DocChannelsAll(doc.children)

PositionChannels == {"Xposition", "Yposition", "Zposition"}

RotationChannels == {"Xrotation", "Yrotation", "Zrotation"}

\* the spec's concrete scenario
DocScenario ==
    Doc("ROOT", "Hip", <<0, 0, 0>>, 6,
        <<"Xposition", "Yposition", "Zposition", "Zrotation", "Xrotation", "Yrotation">>,
        << Doc("JOINT", "Head", <<0, 20, 0>>, 3, <<"Zrotation", "Xrotation", "Yrotation">>,
               << EndSiteDoc(<<0, 5, 0>>) >>) >>)

\* a biped with a neck and a foot, each ending in an End Site
DocBiped ==
    Doc("ROOT", "Hips", <<0, 30, 0>>, 3, <<"Xposition", "Yposition", "Zrotation">>,
        << Doc("JOINT", "Neck", <<0, 20, 0>>, 1, <<"Xrotation">>,
               << EndSiteDoc(<<0, 5, 0>>) >>),
           Doc("JOINT", "LeftFoot", <<5, -30, 0>>, 1, <<"Yrotation">>,
               << EndSiteDoc(<<0, -2, 3>>) >>) >>)

\* no joint carries a channel
DocNoChannels ==
    Doc("ROOT", "Base", <<0, 0, 0>>, NoChannelsLine, << >>, << EndSiteDoc(<<0, 5, 0>>) >>)

\* two joints of the same name
DocTwins ==
    Doc("ROOT", "Hip", <<0, 0, 0>>, 1, <<"Yposition">>,
        << Doc("JOINT", "Arm", <<10, 0, 0>>, 1, <<"Zrotation">>, << >>),
           Doc("JOINT", "Arm", <<-10, 2, 0>>, 1, <<"Zrotation">>, << >>) >>)

\* the root's channels come after its child
DocLate ==
    Doc("ROOT", "Hip", <<0, 1, 0>>, NoChannelsLine, << >>,
        << Doc("JOINT", "Head", <<0, 20, 0>>, 2, <<"Yposition", "Zrotation">>, << >>) >>)

\* a CHANNELS line that declares more channels than it names: not valid
DocMiscount ==
    Doc("ROOT", "Hip", <<0, 0, 0>>, 6, <<"Xposition", "Yposition", "Zposition">>,
        << Doc("JOINT", "Head", <<0, 20, 0>>, 1, <<"Zrotation">>, << >>) >>)

\* a CHANNELS line on an End Site: not valid
DocEndChannels ==
    Doc("ROOT", "Hip", <<0, 0, 0>>, 1, <<"Yposition">>,
        << Doc("End Site", "", <<0, 5, 0>>, 1, <<"Zrotation">>, << >>) >>)

ValidDocs == {DocScenario, DocBiped, DocNoChannels, DocTwins, DocLate}

InvalidDocs == {DocMiscount, DocEndChannels}

\* one row of frame values for the channel list `chans`: `pos` for every position
\* channel and `rot` for every rotation channel
Row(chans, pos, rot) ==
    [k \in 1..Len(chans) |->
        IF chans[k] \in PositionChannels THEN ToString(pos) ELSE ToString(rot)]

Motion(declared, frameTime, rows) ==
    [declared |-> declared, frameTime |-> frameTime, rows |-> rows]

RenderMotion(m) ==
    << <<"MOTION">>, <<"Frames:", m.declared>>, <<"Frame", "Time:", m.frameTime>> >>
    \o m.rows

Text(doc, m) == << <<"HIERARCHY">> >> \o Render(doc) \o RenderMotion(m)

\* the motions written for a document
MotionsOf(doc) ==
    LET chans == DocChannels(doc)
        zero == Row(chans, 0, 0)
        still == Row(chans, 7, 0)
        turn == Row(chans, 3, 90)
        back == Row(chans, 0 - 4, 0 - 90)
        narrow == IF chans = << >> THEN << >> ELSE SubSeq(zero, 1, Len(zero) - 1)
        wide == Append(zero, "1")
        marked == IF chans = << >> THEN <<"abc">> ELSE <<"abc">> \o Tail(still)
    IN  { Motion("1", "1", <<zero>>),
          Motion("3", "1", <<zero, still, turn>>),
          Motion("2", "2", <<turn, back>>),
          Motion("3", "1", <<still>>),
          Motion("1", "1", <<still, turn>>),
          Motion("0", "1", << >>),
          Motion("2", "0", <<zero, still>>),
          Motion("2", ".", <<zero, still>>),
          Motion("2", "1", <<narrow, still>>),
          Motion("2", "1", <<still, wide>>),
          Motion("2", "1", <<marked, turn>>) }

TextsOf(doc) == {Text(doc, m) : m \in MotionsOf(doc)}

BaseTexts == UNION {TextsOf(doc) : doc \in ValidDocs \cup InvalidDocs}

\* a text with line k removed
DropLine(text, k) == SubSeq(text, 1, k - 1) \o SubSeq(text, k + 1, Len(text))

\* a text with a blank line put before line k
BlankBefore(text, k) == SubSeq(text, 1, k - 1) \o << << >> >> \o SubSeq(text, k, Len(text))

\* the first k lines of a text
Prefix(text, k) == SubSeq(text, 1, IF k < Len(text) THEN k ELSE Len(text))

\* a text with line k replaced
PutLine(text, k, line) == [text EXCEPT ![k] = line]

ScenarioText == Text(DocScenario, Motion("3", "1",
                    <<Row(DocChannels(DocScenario), 0, 0),
                      Row(DocChannels(DocScenario), 7, 0),
                      Row(DocChannels(DocScenario), 3, 90)>>))

BipedText == Text(DocBiped, Motion("2", "2",
                    <<Row(DocChannels(DocBiped), 3, 0),
                      Row(DocChannels(DocBiped), 0 - 4, 0 - 90)>>))

DamagedTexts ==
    {DropLine(t, k) : t \in {ScenarioText, BipedText}, k \in 1..Len(ScenarioText)}
    \cup {BlankBefore(ScenarioText, k) : k \in 1..Len(ScenarioText)}
    \cup {PutLine(ScenarioText, k, line) :
            k \in (Len(ScenarioText) - 4)..(Len(ScenarioText) - 3),
            line \in { <<"Frames:", "abc">>, <<"Frames:", "-1">>, <<"Frames:">>,
                       <<"Frame", "Time:", "abc">>, <<"Frame", "Time:">>,
                       <<"x", "Frames:", "2">>, <<"x", "Frame", "Time:", "1">> }}
    \cup {Prefix(t, k) : t \in {ScenarioText, BipedText}, k \in 1..Len(BipedText)}
    \cup { << >>, << << >> >>, << <<"HIERARCHY">> >>,
           << <<"HIERARCHY">>, <<"ROOT", "Hip">> >>,
           << <<"HIERARCHY">>, <<"MOTION">>, <<"{">>, <<"}">>, <<"MOTION">>,
              <<"Frames:", "1">>, <<"Frame", "Time:", "1">>, <<"0">> >> }

Texts == BaseTexts \cup DamagedTexts

(***************************************************************************)
(* Fractions: the quotients the normaliser computes (scale = 160 / height). *)
(* A fraction is n/d in lowest terms with d >= 0; d = 0 holds the IEEE      *)
(* values a division can produce: 1/0 and -1/0 the infinities, 0/0 NaN.     *)
(***************************************************************************)
Abs(a) == IF a < 0 THEN 0 - a ELSE a

Sign(a) == IF a < 0 THEN 0 - 1 ELSE IF a > 0 THEN 1 ELSE 0

RECURSIVE GCD(_, _)
GCD(a, b) == IF b = 0 THEN a ELSE GCD(b, a % b)

Frac(n, d) ==
    IF d = 0 THEN [n |-> Sign(n), d |-> 0]
    ELSE LET g == GCD(Abs(n), Abs(d))
         IN  [n |-> Sign(d) * (n \div g), d |-> Abs(d) \div g]

NaNF == [n |-> 0, d |-> 0]

\* a number of the integer domain as a fraction
FromNum(a) == IF a = NaN THEN NaNF ELSE [n |-> a, d |-> 1]

FMul(a, b) == Frac(a.n * b.n, a.d * b.d)

FDiv(a, b) == Frac(a.n * b.d * Sign(IF b.n = 0 THEN 1 ELSE b.n), a.d * Abs(b.n))

FAdd(a, b) ==
    IF a.d = 0 /\ b.d = 0 THEN (IF a = b THEN a ELSE NaNF)
    ELSE Frac(a.n * b.d + b.n * a.d, a.d * b.d)

FNeg(a) == [n |-> 0 - a.n, d |-> a.d]

FSub(a, b) == FAdd(a, FNeg(b))

\* a > b in JavaScript: false when either side is NaN
FGt(a, b) ==
    /\ a # NaNF /\ b # NaNF /\ a # b
    /\ IF a.d = 0 THEN a.n > 0
       ELSE IF b.d = 0 THEN b.n < 0
       ELSE a.n * b.d > b.n * a.d

\* the truthiness of a number: 0 and NaN are falsy
Truthy(a) == a # NaNF /\ a.n # 0

One == [n |-> 1, d |-> 1]

(***************************************************************************)
(* THREE.Matrix4: 4 x 4 matrices over the numbers, m[row][column].         *)
(***************************************************************************)
Identity4 == << <<1, 0, 0, 0>>, <<0, 1, 0, 0>>, <<0, 0, 1, 0>>, <<0, 0, 0, 1>> >>

makeTranslation(x, y, z) ==
    << <<1, 0, 0, x>>, <<0, 1, 0, y>>, <<0, 0, 1, z>>, <<0, 0, 0, 1>> >>

\* Math.cos and Math.sin of degToRad(v), v a multiple of 90 degrees
CosDeg(v) ==
    IF v = NaN THEN NaN
    ELSE CASE v % 360 = 0 -> 1
           [] v % 360 = 90 -> 0
           [] v % 360 = 180 -> 0 - 1
           [] v % 360 = 270 -> 0

SinDeg(v) ==
    IF v = NaN THEN NaN
    ELSE CASE v % 360 = 0 -> 0
           [] v % 360 = 90 -> 1
           [] v % 360 = 180 -> 0
           [] v % 360 = 270 -> 0 - 1

makeRotationX(v) ==
    LET c == CosDeg(v)  s == SinDeg(v) IN
    << <<1, 0, 0, 0>>, <<0, c, Sub(0, s), 0>>, <<0, s, c, 0>>, <<0, 0, 0, 1>> >>

makeRotationY(v) ==
    LET c == CosDeg(v)  s == SinDeg(v) IN
    << <<c, 0, s, 0>>, <<0, 1, 0, 0>>, <<Sub(0, s), 0, c, 0>>, <<0, 0, 0, 1>> >>

makeRotationZ(v) ==
    LET c == CosDeg(v)  s == SinDeg(v) IN
    << <<c, Sub(0, s), 0, 0>>, <<s, c, 0, 0>>, <<0, 0, 1, 0>>, <<0, 0, 0, 1>> >>

\* Matrix4.multiplyMatrices(a, b) (and a.multiply(b)): all sixteen entries
multiplyMatrices(a, b) ==
    LET te == [r \in 1..4 |-> [c \in 1..4 |->
                  Add(Add(Add(Mul(a[r][1], b[1][c]), Mul(a[r][2], b[2][c])),
                          Mul(a[r][3], b[3][c])),
                      Mul(a[r][4], b[4][c]))]]
    IN  << <<te[1][1], te[1][2], te[1][3], te[1][4]>>,
           <<te[2][1], te[2][2], te[2][3], te[2][4]>>,
           <<te[3][1], te[3][2], te[3][3], te[3][4]>>,
           <<te[4][1], te[4][2], te[4][3], te[4][4]>> >>

\* Vector3.setFromMatrixPosition(m)
setFromMatrixPosition(m) == <<m[1][4], m[2][4], m[3][4]>>

ChannelNames == PositionChannels \cup RotationChannels

\* the matrix one channel multiplies into the local transform
ChannelMatrix(channel, value) ==
    CASE channel = "Xposition" -> makeTranslation(value, 0, 0)
      [] channel = "Yposition" -> makeTranslation(0, value, 0)
      [] channel = "Zposition" -> makeTranslation(0, 0, value)
      [] channel = "Xrotation" -> makeRotationX(value)
      [] channel = "Yrotation" -> makeRotationY(value)
      [] channel = "Zrotation" -> makeRotationZ(value)

(***************************************************************************)
(* The viewer's objects.  null is Null.  A sphere is an entry of the       *)
(* sequence meshes (its position); a bone refers to its sphere by index.   *)
(***************************************************************************)
Null == [null |-> TRUE]

EndSiteName(parentName) == "EndSite_" \o parentName

\* createBonesFromBVH: st = [bones, meshes, boneConnections]
RECURSIVE createBonesFromBVH(_, _, _, _)
RECURSIVE createBonesOfChildren(_, _, _, _, _)
createBonesOfChildren(children, k, node, pos, st) ==
    IF k > Len(children) THEN st
    ELSE createBonesOfChildren(children, k + 1, node, pos,
             createBonesFromBVH(children[k], node, pos, st))

createBonesFromBVH(node, parentNode, parentPos, st) ==
    LET pos == << Add(parentPos[1], node.offset[1]),
                  Add(parentPos[2], node.offset[2]),
                  Add(parentPos[3], node.offset[3]) >>
        sphere == Len(st.meshes) + 1
        joint == Len(node.channels) > 0 /\ node.type # "End Site"
        made == joint \/ node.type = "End Site"
        key == IF joint THEN node.name ELSE EndSiteName(parentNode.name)
        bones1 == IF made
                  THEN (key :> [sphere |-> sphere, node |-> node, position |-> pos])
                       @@ st.bones
                  ELSE st.bones
        meshes1 == IF made THEN Append(st.meshes, pos) ELSE st.meshes
        conns1 == IF parentNode # Null /\ node.name # Undefined /\ node.name # ""
                  THEN Append(st.boneConnections,
                              [parent |-> parentNode.name, child |-> node.name,
                               childType |-> node.type])
                  ELSE IF parentNode # Null /\ node.type = "End Site"
                  THEN Append(st.boneConnections,
                              [parent |-> parentNode.name,
                               child |-> EndSiteName(parentNode.name),
                               childType |-> "End Site"])
                  ELSE st.boneConnections
    IN  createBonesOfChildren(node.children, 1, node, pos,
            [bones |-> bones1, meshes |-> meshes1, boneConnections |-> conns1])

\* createSkeletonLines: one line per connection whose two bones exist
createSkeletonLines(bones, meshes, boneConnections) ==
    LET kept == SelectSeq(boneConnections,
                    LAMBDA c : c.parent \in DOMAIN bones /\ c.child \in DOMAIN bones)
    IN  [k \in 1..Len(kept) |->
            [parentName |-> kept[k].parent, childName |-> kept[k].child,
             points |-> << meshes[bones[kept[k].parent].sphere],
                           meshes[bones[kept[k].child].sphere] >>]]

\* the setFromPoints loop of updateSkeletonLines
updateLinePoints(lines, bones, meshes) ==
    [k \in 1..Len(lines) |->
        IF lines[k].parentName \in DOMAIN bones /\ lines[k].childName \in DOMAIN bones
        THEN [lines[k] EXCEPT !.points = << meshes[bones[lines[k].parentName].sphere],
                                            meshes[bones[lines[k].childName].sphere] >>]
        ELSE lines[k]]

(***************************************************************************)
(* BVHViewer.updateFrame.  The walk is sequential: w holds the channel      *)
(* cursor, the sphere positions written so far, the End Site updates and    *)
(* whether a TypeError was thrown (frameData[channelIndex] with frameData   *)
(* undefined), which ends the walk where it stands.                         *)
(***************************************************************************)
\* frameData = this.motionData.frames[frameIndex]: undefined unless the index
\* is one of 0..length-1
FrameDefined(frames, frameIndex) ==
    frameIndex # NaN /\ 0 <= frameIndex /\ frameIndex < Len(frames)

\* frameData where it is defined
FrameData(frames, frameIndex) ==
    IF FrameDefined(frames, frameIndex) THEN frames[frameIndex + 1] ELSE << >>

\* frameData[channelIndex]: undefined (NaN in arithmetic) past the end
FrameValue(frameData, channelIndex) ==
    IF channelIndex < Len(frameData) THEN frameData[channelIndex + 1] ELSE NaN

\* a faulty variant of applyChannels: each channel's matrix is multiplied in from
\* the left
RECURSIVE applyChannelsLeft(_, _, _, _, _, _)
applyChannelsLeft(channels, i, local, channelIndex, defined, frameData) ==
    IF i > Len(channels)
    THEN [local |-> local, channelIndex |-> channelIndex, threw |-> FALSE]
    ELSE IF ~defined
    THEN [local |-> local, channelIndex |-> channelIndex, threw |-> TRUE]
    ELSE applyChannelsLeft(channels, i + 1,
             IF channels[i] \in ChannelNames
             THEN multiplyMatrices(
                      ChannelMatrix(channels[i], FrameValue(frameData, channelIndex)),
                      local)
             ELSE local,
             channelIndex + 1, defined, frameData)

\* the channel loop of updateBone from channel i on
RECURSIVE applyChannels(_, _, _, _, _, _)
applyChannels(channels, i, local, channelIndex, defined, frameData) ==
    IF i > Len(channels)
    THEN [local |-> local, channelIndex |-> channelIndex, threw |-> FALSE]
    ELSE IF ~defined
    THEN [local |-> local, channelIndex |-> channelIndex, threw |-> TRUE]
    ELSE applyChannels(channels, i + 1,
             IF channels[i] \in ChannelNames
             THEN multiplyMatrices(local,
                      ChannelMatrix(channels[i], FrameValue(frameData, channelIndex)))
             ELSE local,
             channelIndex + 1, defined, frameData)

\* the End Site loop of updateBone: endSiteUpdates.set for each End Site child
RECURSIVE endSitesOf(_, _, _, _, _)
endSitesOf(children, k, node, pos, es) ==
    IF k > Len(children) THEN es
    ELSE endSitesOf(children, k + 1, node, pos,
             IF children[k].type = "End Site"
             THEN Append(SelectSeq(es, LAMBDA e : e.name # EndSiteName(node.name)),
                         [name |-> EndSiteName(node.name),
                          pos |-> << Add(pos[1], children[k].offset[1]),
                                     Add(pos[2], children[k].offset[2]),
                                     Add(pos[3], children[k].offset[3]) >>])
             ELSE es)

\* world = parentTransform x local
WorldTransform(parentTransform, local) == multiplyMatrices(parentTransform, local)

RECURSIVE updateBone(_, _, _, _, _, _)
RECURSIVE updateBones(_, _, _, _, _, _, _)
RECURSIVE transformBone(_, _, _, _, _, _, _)
RECURSIVE placeBone(_, _, _, _, _, _, _)
updateBones(children, k, world, defined, frameData, bones, w) ==
    IF k > Len(children) \/ w.threw THEN w
    ELSE updateBones(children, k + 1, world, defined, frameData, bones,
             updateBone(children[k], world, defined, frameData, bones, w))

\* a faulty variant of placeBone: each End Site child takes a value of the frame
placeBoneCountingEndSites(node, world, defined, frameData, bones, w, channelIndex) ==
    updateBones(node.children, 1, world, defined, frameData, bones,
        [channelIndex |->
             channelIndex + Cardinality({k \in 1..Len(node.children) :
                                node.children[k].type \in {"End", "End Site"}}),
         meshes |-> IF node.name \in DOMAIN bones
                    THEN [w.meshes EXCEPT ![bones[node.name].sphere] =
                                              setFromMatrixPosition(world)]
                    ELSE w.meshes,
         endSiteUpdates |-> endSitesOf(node.children, 1, node,
                                setFromMatrixPosition(world), w.endSiteUpdates),
         threw |-> FALSE])

\* a faulty variant of placeBone: the sphere is moved by the joint's position
\* instead of being put at it
placeBoneDrifting(node, world, defined, frameData, bones, w, channelIndex) ==
    updateBones(node.children, 1, world, defined, frameData, bones,
        [channelIndex |-> channelIndex,
         meshes |-> IF node.name \in DOMAIN bones
                    THEN [w.meshes EXCEPT ![bones[node.name].sphere] =
                             << Add(@[1], setFromMatrixPosition(world)[1]),
                                Add(@[2], setFromMatrixPosition(world)[2]),
                                Add(@[3], setFromMatrixPosition(world)[3]) >>]
                    ELSE w.meshes,
         endSiteUpdates |-> endSitesOf(node.children, 1, node,
                                setFromMatrixPosition(world), w.endSiteUpdates),
         threw |-> FALSE])

\* updateBone from worldTransform on: the joint's sphere takes its position, the
\* End Site children are recorded, the children follow
placeBone(node, world, defined, frameData, bones, w, channelIndex) ==
    updateBones(node.children, 1, world, defined, frameData, bones,
        [channelIndex |-> channelIndex,
         meshes |-> IF node.name \in DOMAIN bones
                    THEN [w.meshes EXCEPT ![bones[node.name].sphere] =
                                              setFromMatrixPosition(world)]
                    ELSE w.meshes,
         endSiteUpdates |-> endSitesOf(node.children, 1, node,
                                setFromMatrixPosition(world), w.endSiteUpdates),
         threw |-> FALSE])

\* updateBone after its channel loop, which left ch
transformBone(node, parentTransform, defined, frameData, bones, w, ch) ==
    IF ch.threw
    THEN [w EXCEPT !.threw = TRUE, !.channelIndex = ch.channelIndex]
    ELSE placeBone(node, WorldTransform(parentTransform, ch.local), defined,
                   frameData, bones, w, ch.channelIndex)

updateBone(node, parentTransform, defined, frameData, bones, w) ==
    transformBone(node, parentTransform, defined, frameData, bones, w,
        applyChannels(node.channels, 1,
            makeTranslation(node.offset[1], node.offset[2], node.offset[3]),
            w.channelIndex, defined, frameData))

\* endSiteUpdates.forEach: the End Site spheres that exist take their position
RECURSIVE applyEndSites(_, _, _, _)
applyEndSites(es, k, bones, meshes) ==
    IF k > Len(es) THEN meshes
    ELSE applyEndSites(es, k + 1, bones,
             IF es[k].name \in DOMAIN bones
             THEN [meshes EXCEPT ![bones[es[k].name].sphere] = es[k].pos]
             ELSE meshes)

\* a faulty variant of updateSkeletonLines: the stored scale is dropped once
\* the spheres have been resized
updateSkeletonLinesRescaling(v) ==
    [v EXCEPT !.lines = updateLinePoints(v.lines, v.bones, v.meshes),
              !.meshScale = IF Truthy(v.skeletonScale)
                            THEN FDiv(One, v.skeletonScale) ELSE @,
              !.skeletonScale = One]

\* updateSkeletonLines on viewer v: the lines follow the spheres, and every
\* sphere is scaled by 1 / skeletonScale when skeletonScale is truthy
updateSkeletonLines(v) ==
    [v EXCEPT !.lines = updateLinePoints(v.lines, v.bones, v.meshes),
              !.meshScale = IF Truthy(v.skeletonScale)
                            THEN FDiv(One, v.skeletonScale) ELSE @]

\* !this.motionData || frameIndex >= this.motionData.frames.length
OutOfRange(motionData, frameIndex) ==
    motionData = Null \/ Ge(frameIndex, Len(motionData.frames))

\* updateFrame once the walk from the root has ended in w
finishFrame(v, w) ==
    IF w.threw
    THEN [viewer |-> [v EXCEPT !.meshes = w.meshes], threw |-> TRUE,
          channelIndex |-> w.channelIndex]
    ELSE [viewer |->
              updateSkeletonLines(
                  [v EXCEPT !.meshes =
                      applyEndSites(w.endSiteUpdates, 1, v.bones, w.meshes)]),
          threw |-> FALSE, channelIndex |-> w.channelIndex]

\* updateFrame(frameIndex) on viewer v: the viewer after the call, whether the
\* call threw, and where the channel cursor stood when it ended
updateFrame(v, frameIndex) ==
    IF OutOfRange(v.motionData, frameIndex)
    THEN [viewer |-> v, threw |-> FALSE, channelIndex |-> 0]
    ELSE finishFrame(v,
             updateBone(v.skeleton, Identity4,
                 FrameDefined(v.motionData.frames, frameIndex),
                 FrameData(v.motionData.frames, frameIndex), v.bones,
                 [channelIndex |-> 0, meshes |-> v.meshes,
                  endSiteUpdates |-> << >>, threw |-> FALSE]))

(***************************************************************************)
(* Scale normalisation.                                                    *)
(***************************************************************************)
\* this.bones.get(name).sphere.position, or Null when there is no such bone
BonePosition(v, name) ==
    IF name \in DOMAIN v.bones THEN v.meshes[v.bones[name].sphere] ELSE Null

findHeadPosition(v) ==
    IF "Head" \in DOMAIN v.bones THEN BonePosition(v, "Head")
    ELSE IF "Neck" \in DOMAIN v.bones THEN BonePosition(v, "Neck")
    ELSE Null

footBoneNames ==
    << "LeftFoot", "RightFoot", "LeftToes", "RightToes",
       "L_Foot", "R_Foot", "L_Toe", "R_Toe",
       "left_foot", "right_foot", "left_toe", "right_toe",
       "LeftUpperLeg", "RightUpperLeg", "LeftLowerLeg", "RightLowerLeg" >>

footEndSiteNames ==
    << "EndSite_LeftFoot", "EndSite_RightFoot", "EndSite_LeftToes", "EndSite_RightToes",
       "EndSite_L_Foot", "EndSite_R_Foot", "EndSite_L_Toe", "EndSite_R_Toe",
       "EndSite_left_foot", "EndSite_right_foot", "EndSite_left_toe",
       "EndSite_right_toe" >>

\* names.forEach(name => { if (bone && bone.sphere.position.y < lowestY) ... }):
\* lowest is the position found so far, Null for none (lowestY = Infinity)
RECURSIVE lowestAmong(_, _, _, _)
lowestAmong(names, k, v, lowest) ==
    IF k > Len(names) THEN lowest
    ELSE lowestAmong(names, k + 1, v,
             IF /\ names[k] \in DOMAIN v.bones
                /\ BonePosition(v, names[k])[2] # NaN
                /\ (lowest = Null \/ BonePosition(v, names[k])[2] < lowest[2])
             THEN BonePosition(v, names[k])
             ELSE lowest)

\* a faulty variant of findLowestFootPosition: the lowest of all bones, whatever
\* their names
findLowestOfAllBones(v) == lowestAmong(v.boneOrder, 1, v, Null)

findLowestFootPosition(v) ==
    LET named == lowestAmong(footEndSiteNames, 1, v,
                     lowestAmong(footBoneNames, 1, v, Null))
    IN  IF named # Null THEN named ELSE lowestAmong(v.boneOrder, 1, v, Null)

\* the diameter of a joint's sphere: SphereGeometry(1.5, 8, 6)
SphereDiameter == 3

Coordinates(v, axis) == {v.meshes[k][axis] : k \in 1..Len(v.meshes)}

Max(S) == CHOOSE m \in S : \A o \in S : m >= o

\* the extent of the spheres' centres along one axis
Spread(v, axis) == Max(Coordinates(v, axis)) - Min(Coordinates(v, axis))

\* a NaN coordinate makes every measure of the bounding box NaN
BoxIsNaN(v) == \E axis \in 1..3 : NaN \in Coordinates(v, axis)

\* Math.max(size.x, size.y, size.z): the largest spread of the centres plus one
\* sphere, whose scale is meshScale
maxDimension(v) ==
    IF BoxIsNaN(v) THEN NaNF
    ELSE FAdd(FromNum(Max({Spread(v, axis) : axis \in 1..3})),
              FMul(FromNum(SphereDiameter), v.meshScale))

\* box.getCenter along one axis
center(v, axis) ==
    IF BoxIsNaN(v) THEN NaNF
    ELSE Frac(Max(Coordinates(v, axis)) + Min(Coordinates(v, axis)), 2)

\* fallbackScaling from `scale` on
scaleToBox(v, scale) ==
    [v EXCEPT !.skeletonGroup.scale = scale,
              !.meshScale = FDiv(One, scale),
              !.skeletonGroup.position =
                  << FNeg(FMul(center(v, 1), scale)),
                     FAdd(FNeg(FMul(center(v, 2), scale)), FromNum(50)),
                     FNeg(FMul(center(v, 3), scale)) >>,
              !.skeletonScale = scale]

\* fallbackScaling: the bounding box of the spheres decides scale and position
fallbackScaling(v) ==
    IF v.meshes = << >> THEN v
    ELSE scaleToBox(v, FDiv(FromNum(150), maxDimension(v)))

\* a faulty variant of HeuristicScale: the fallback's 150 in place of targetHeight
HeuristicScaleOfBox(bodyHeight) == FDiv(FromNum(150), FromNum(bodyHeight))

\* scale = targetHeight / bodyHeight, targetHeight = 160
HeuristicScale(bodyHeight) == FDiv(FromNum(160), FromNum(bodyHeight))

\* normalizeSkeletonScale from `scale` on
scaleToHeight(v, footPosition, scale) ==
    [v EXCEPT !.skeletonGroup.scale = scale,
              !.meshScale = FDiv(One, scale),
              !.skeletonGroup.position =
                  << FromNum(0),
                     FSub(FNeg(FMul(FromNum(footPosition[2]), scale)), FromNum(40)),
                     FromNum(0) >>,
              !.skeletonScale = scale]

\* a faulty variant of scaleByHeight: the body height is not checked
scaleByHeightUnchecked(v, footPosition, bodyHeight) ==
    scaleToHeight(v, footPosition, HeuristicScale(bodyHeight))

\* normalizeSkeletonScale from bodyHeight on
scaleByHeight(v, footPosition, bodyHeight) ==
    IF bodyHeight # NaN /\ bodyHeight <= 1 THEN fallbackScaling(v)
    ELSE scaleToHeight(v, footPosition, HeuristicScale(bodyHeight))

\* normalizeSkeletonScale once head and foot have been looked up
scaleBetween(v, headPosition, footPosition) ==
    IF headPosition = Null \/ footPosition = Null THEN fallbackScaling(v)
    ELSE scaleByHeight(v, footPosition, Sub(headPosition[2], footPosition[2]))

\* normalizeSkeletonScale after its updateFrame(0)
scalePosed(v) == scaleBetween(v, findHeadPosition(v), findLowestFootPosition(v))

normalizeSkeletonScale(v) == scalePosed(updateFrame(v, 0).viewer)

(***************************************************************************)
(* createSkeleton: the old group leaves the scene, a new group (named by   *)
(* the load that creates it) enters, the bone table is rebuilt, frame 0 is *)
(* posed and the scale normalised.                                         *)
(***************************************************************************)
\* the keys of the bone table in insertion order
RECURSIVE InsertionOrder(_, _, _)
RECURSIVE InsertionOrderAll(_, _, _, _)
InsertionOrderAll(children, k, node, order) ==
    IF k > Len(children) THEN order
    ELSE InsertionOrderAll(children, k + 1, node,
             InsertionOrder(children[k], node, order))

InsertionOrder(node, parentNode, order) ==
    LET joint == Len(node.channels) > 0 /\ node.type # "End Site"
        made == joint \/ node.type = "End Site"
        key == IF joint THEN node.name ELSE EndSiteName(parentNode.name)
        order1 == IF made /\ ~\E i \in 1..Len(order) : order[i] = key
                  THEN Append(order, key) ELSE order
    IN  InsertionOrderAll(node.children, 1, node, order1)

\* createSkeleton up to createSkeletonLines; built is what createBonesFromBVH made
rebuild(v, id, built) ==
    [v EXCEPT !.scene = (IF v.skeletonGroup # Null
                         THEN @ \ {v.skeletonGroup.id} ELSE @) \cup {id},
              !.skeletonGroup =
                  [id |-> id, scale |-> One,
                   position |-> <<FromNum(0), FromNum(0), FromNum(0)>>],
              !.bones = built.bones,
              !.boneOrder = InsertionOrder(v.skeleton, Null, << >>),
              !.meshes = built.meshes,
              !.meshScale = One,
              !.boneConnections = built.boneConnections,
              !.lines = createSkeletonLines(built.bones, built.meshes,
                                            built.boneConnections)]

\* createSkeleton up to and with its updateFrame(0)
posed(v, id) ==
    updateFrame(
        rebuild(v, id,
            createBonesFromBVH(v.skeleton, Null, <<0, 0, 0>>,
                [bones |-> << >>, meshes |-> << >>, boneConnections |-> << >>])),
        0)

createSkeleton(v, id) == normalizeSkeletonScale(posed(v, id).viewer)

\* whether one of the two updateFrame(0) calls of createSkeleton throws (neither
\* can: index 0 passes the guard of updateFrame only when frames[0] exists)
createSkeletonThrows(v, id) ==
    posed(v, id).threw \/ updateFrame(posed(v, id).viewer, 0).threw

(***************************************************************************)
(* The files a user can pick.                                              *)
(***************************************************************************)
Files == {"scenario.bvh", "biped.bvh", "empty.bvh", "still.bvh", "narrow.bvh",
          "broken.bvh", "bare.bvh", "twins.bvh", "short.bvh"}

\* what FileReader.readAsText delivers for each file
Content(file) ==
    CASE file = "scenario.bvh" -> ScenarioText
      [] file = "biped.bvh" -> BipedText
      [] file = "empty.bvh" -> Text(DocScenario, Motion("0", "1", << >>))
      [] file = "still.bvh" ->
             Text(DocScenario, Motion("2", "0",
                 <<Row(DocChannels(DocScenario), 0, 0),
                   Row(DocChannels(DocScenario), 7, 0)>>))
      [] file = "narrow.bvh" ->
             Text(DocLate, Motion("2", "1", <<<<"4">>, <<"0", "90">>>>))
      [] file = "broken.bvh" -> DropLine(ScenarioText, 3)
      [] file = "bare.bvh" -> Text(DocNoChannels, Motion("1", "1", <<<<"0">>>>))
      [] file = "short.bvh" ->
             Text(DocScenario, Motion("2", "1",
                 << <<"0", "0", "0", "0", "0">>,
                    Row(DocChannels(DocScenario), 7, 0) >>))
      [] file = "twins.bvh" ->
             Text(DocTwins, Motion("2", "1",
                 <<Row(DocChannels(DocTwins), 5, 0),
                   Row(DocChannels(DocTwins), 6, 90)>>))

\* the two viewer classes: BVHViewer (main.js) and ModelViewer (the variants)
ViewerKinds == {"BVHViewer", "ModelViewer"}

\* with the whole of playback at most MaxLoads files are picked in a run; with
\* playback cut down to play and the animation frames, MaxReloads; at most
\* MaxInflight are being read at a time
MaxLoads == 1

MaxReloads == 2

MaxInflight == 2

\* animation frames arrive TickMs milliseconds apart or a multiple of it, up to
\* MaxStep ticks at once and MaxTicks ticks in a run
TickMs == 1000

MaxStep == 1

MaxTicks == 2
MaxFormatLoads == 3
MaxSources == 3

\* the positions of the speed slider
Speeds == {1, 2}

\* the frame indices a direct call of updateFrame passes
CallIndices == {0 - 1, 0, 1, 3}

(***************************************************************************)
(* State.                                                                  *)
(***************************************************************************)
VARIABLES
    content,    \* the text handed to BVHParser.parse
    parsed,     \* what parse returned (ok = FALSE: it threw)
    viewer,     \* the viewer object: its fields, the scene and the controls
    loads,      \* the loads requested so far, in order: file and status
    now,        \* the timestamp of the latest animation frame
    outcome     \* the last handler: which one, the frame index it posed, whether it threw

vars == <<content, parsed, viewer, loads, now, outcome>>

NotParsed == [ok |-> FALSE, error |-> "not parsed", skeleton |-> NoNode,
              motionData |-> NoMotion, totalChannels |-> 0, warnings |-> << >>]

\* the viewer after its constructor; the page's buttons start disabled (they
\* wait for enableControls)
\* the audio fields of the VRM viewer as its constructor leaves them, the two
\* audio buttons disabled; sources are the buffer sources created so far, each
\* playing, ending (it has stopped and its ended event is queued) or ended, and
\* running are the interval timers that have not been cleared
NoAudio ==
    [vrm |-> FALSE, audioBuffer |-> FALSE, audioSource |-> Null,
     lipSyncInterval |-> Null, playAudioBtnDisabled |-> TRUE,
     stopAudioBtnDisabled |-> TRUE, sources |-> << >>, running |-> {}]

NewViewer(kind, controlsEnabled) ==
    [kind |-> kind, scene |-> {}, skeleton |-> Null, motionData |-> Null,
     totalChannels |-> 0, isPlaying |-> FALSE, currentFrame |-> 0, playSpeed |-> 1,
     bones |-> << >>, boneOrder |-> << >>, meshes |-> << >>, meshScale |-> One,
     lines |-> << >>, boneConnections |-> << >>, skeletonGroup |-> Null,
     skeletonScale |-> One, lastFrameTime |-> 0, frameAccumulator |-> 0,
     controlsEnabled |-> controlsEnabled, currentModelType |-> "none",
     currentModel |-> Null, mixer |-> Null, audio |-> NoAudio]

\* outcome after a handler that calls updateFrame: the frame index it passed
\* and whether the call threw
Ran(handler, arg, threw) == [handler |-> handler, arg |-> arg, threw |-> threw]

\* outcome after any other handler
Quiet == Ran("other", 0, FALSE)

Reading == {i \in 1..Len(loads) : loads[i].status = "reading"}

(***************************************************************************)
(* Loading.                                                                *)
(***************************************************************************)
\* ModelViewer.clearScene
clearScene(v) ==
    [v EXCEPT !.scene = (IF v.skeletonGroup # Null THEN @ \ {v.skeletonGroup.id} ELSE @)
                            \ (IF v.currentModel # Null THEN {v.currentModel.id} ELSE {}),
              !.skeletonGroup = Null,
              !.currentModel = Null,
              !.mixer = Null,
              !.meshes = << >>, !.lines = << >>,
              !.bones = << >>, !.boneOrder = << >>, !.boneConnections = << >>,
              !.isPlaying = FALSE, !.currentFrame = 0,
              !.skeleton = Null, !.motionData = Null,
              !.currentModelType = "none",
              !.controlsEnabled = FALSE]

\* the three assignments of loadBVHFile after a successful parse (and
\* currentModelType in ModelViewer)
assign(v, result) ==
    [v EXCEPT !.skeleton = result.skeleton,
              !.motionData = result.motionData,
              !.totalChannels = result.totalChannels,
              !.currentModelType = IF v.kind = "ModelViewer" THEN "bvh" ELSE @]

\* loadBVHFile after a successful parse: assignments, createSkeleton, and
\* enableControls unless createSkeleton threw into the catch block
publish(v, result, id) ==
    [createSkeleton(assign(v, result), id) EXCEPT
        !.controlsEnabled = IF createSkeletonThrows(assign(v, result), id) THEN @ ELSE TRUE]

\* a file is picked or dropped: loadBVHFile (BVHViewer) or loadFile (ModelViewer,
\* which clears the scene first) runs up to its await of readFile
LoadRequest(file) ==
    /\ Cardinality(Reading) < MaxInflight
    /\ loads' = Append(loads, [file |-> file, status |-> "reading"])
    /\ viewer' = IF viewer.kind = "ModelViewer" THEN clearScene(viewer) ELSE viewer
    /\ outcome' = Quiet
    /\ UNCHANGED <<content, parsed, now>>

\* loadBVHFile after parser.parse(content) has returned or thrown: a parse error
\* is caught and reported by alert
Deliver(i, result) ==
    /\ parsed' = result
    /\ IF result.ok
       THEN /\ viewer' = publish(viewer, result, i)
            /\ loads' = [loads EXCEPT ![i].status = "shown"]
            /\ outcome' = Ran("load", 0, createSkeletonThrows(assign(viewer, result), i))
       ELSE /\ viewer' = viewer
            /\ loads' = [loads EXCEPT ![i].status = "rejected"]
            /\ outcome' = Quiet

\* the read of load i ends: the rest of loadBVHFile runs
ReadComplete(i) ==
    /\ i \in Reading
    /\ content' = Content(loads[i].file)
    /\ Deliver(i, parse(Content(loads[i].file)))
    /\ UNCHANGED now

\* the read of load i fails (reader.onerror): the rejection is caught and reported
ReadError(i) ==
    /\ i \in Reading
    /\ loads' = [loads EXCEPT ![i].status = "unread"]
    /\ outcome' = Quiet
    /\ UNCHANGED <<content, parsed, viewer, now>>

(***************************************************************************)
(* Playback.                                                               *)
(***************************************************************************)
Play ==
    /\ viewer.controlsEnabled
    /\ viewer' = [viewer EXCEPT !.isPlaying = TRUE, !.lastFrameTime = 0]
    /\ outcome' = Quiet
    /\ UNCHANGED <<content, parsed, loads, now>>

Pause ==
    /\ viewer.controlsEnabled
    /\ viewer' = [viewer EXCEPT !.isPlaying = FALSE, !.lastFrameTime = 0]
    /\ outcome' = Quiet
    /\ UNCHANGED <<content, parsed, loads, now>>

\* what a handler did: the viewer after it, and the updateFrame call it made if any
NoCall(v) == [viewer |-> v, threw |-> FALSE, called |-> FALSE, index |-> 0]

Called(r, index) ==
    [viewer |-> r.viewer, threw |-> r.threw, called |-> TRUE, index |-> index]

\* the handler leaves the viewer as r has it; an exception of updateFrame leaves
\* the handler uncaught
Finish(handler, r) ==
    /\ viewer' = r.viewer
    /\ outcome' = IF r.called THEN Ran(handler, r.index, r.threw) ELSE Quiet

\* reset() from its if on
resetPose(v) ==
    IF v.motionData # Null THEN Called(updateFrame(v, 0), 0) ELSE NoCall(v)

Reset ==
    /\ viewer.controlsEnabled
    /\ Finish("reset",
           resetPose([viewer EXCEPT !.currentFrame = 0, !.isPlaying = FALSE,
                                    !.lastFrameTime = 0, !.frameAccumulator = 0]))
    /\ UNCHANGED <<content, parsed, loads, now>>

\* the speed slider's input event
SetSpeed(speed) ==
    /\ viewer.controlsEnabled
    /\ viewer.playSpeed # speed
    /\ viewer' = [viewer EXCEPT !.playSpeed = speed]
    /\ outcome' = Quiet
    /\ UNCHANGED <<content, parsed, loads, now>>

\* Math.floor(frameAccumulator / bvhFrameTimeMs): NaN for x/0 (Infinity or NaN,
\* either of which makes the frame index NaN)
FramesToAdvance(frameAccumulator, bvhFrameTimeMs) ==
    IF bvhFrameTimeMs = 0 THEN NaN ELSE frameAccumulator \div bvhFrameTimeMs

\* (currentFrame + framesToAdvance) % frameCount
NextFrame(currentFrame, framesToAdvance, frameCount) ==
    IF currentFrame = NaN \/ framesToAdvance = NaN \/ frameCount = 0 THEN NaN
    ELSE (currentFrame + framesToAdvance) % frameCount

\* the block of animate under if (frameAccumulator >= bvhFrameTimeMs)
step(v, bvhFrameTimeMs, framesToAdvance, currentFrame) ==
    Called(updateFrame(
               [v EXCEPT !.currentFrame = currentFrame,
                         !.frameAccumulator =
                             Sub(@, Mul(framesToAdvance, bvhFrameTimeMs))],
               currentFrame),
           currentFrame)

\* animate once lastFrameTime and frameAccumulator have been brought up to date
advance(v, bvhFrameTimeMs) ==
    IF Ge(v.frameAccumulator, bvhFrameTimeMs)
    THEN step(v, bvhFrameTimeMs,
              FramesToAdvance(v.frameAccumulator, bvhFrameTimeMs),
              NextFrame(v.currentFrame,
                        FramesToAdvance(v.frameAccumulator, bvhFrameTimeMs),
                        v.motionData.frameCount))
    ELSE NoCall(v)

\* deltaTime = (currentTime - lastFrameTime) * playSpeed, lastFrameTime being
\* currentTime when it was 0
DeltaTime(v, currentTime) ==
    (currentTime - (IF v.lastFrameTime = 0 THEN currentTime ELSE v.lastFrameTime))
        * v.playSpeed

\* animate(currentTime): BVHViewer advances when a motion plays; ModelViewer
\* keeps lastFrameTime whenever it plays and advances when the model is a BVH
animate(v, currentTime) ==
    IF v.isPlaying /\ v.motionData # Null
       /\ (v.kind = "BVHViewer" \/ v.currentModelType = "bvh")
    THEN advance([v EXCEPT !.lastFrameTime = currentTime,
                           !.frameAccumulator = Add(@, DeltaTime(v, currentTime))],
                 Mul(v.motionData.frameTime, 1000))
    ELSE IF v.isPlaying /\ v.kind = "ModelViewer"
    THEN NoCall([v EXCEPT !.lastFrameTime = currentTime])
    ELSE NoCall(v)

\* the next animation frame arrives `ticks` ticks after the last one
Animate(ticks) ==
    /\ now + ticks * TickMs <= MaxTicks * TickMs
    /\ now' = now + ticks * TickMs
    /\ Finish("animate", animate(viewer, now + ticks * TickMs))
    /\ UNCHANGED <<content, parsed, loads>>

\* a direct call of updateFrame(frameIndex), the evaluator's interface
CallUpdateFrame(frameIndex) ==
    /\ Finish("updateFrame", Called(updateFrame(viewer, frameIndex), frameIndex))
    /\ UNCHANGED <<content, parsed, loads, now>>

Init ==
    /\ content = << >>
    /\ parsed = NotParsed
    /\ viewer \in {NewViewer(kind, FALSE) : kind \in ViewerKinds}
    /\ loads = << >>
    /\ now = 0
    /\ outcome = Quiet

Next ==
    \/ \E file \in Files : Len(loads) < MaxLoads /\ LoadRequest(file)
    \/ \E i \in 1..MaxLoads : ReadComplete(i)
    \/ \E i \in 1..MaxLoads : ReadError(i)
    \/ Play
    \/ Pause
    \/ Reset
    \/ \E speed \in Speeds : SetSpeed(speed)
    \/ \E ticks \in 1..MaxStep : Animate(ticks)
    \/ \E frameIndex \in CallIndices : CallUpdateFrame(frameIndex)

Spec == Init /\ [][Next]_vars

(***************************************************************************)
(* Loads that follow and overlap one another, with as much of playback as  *)
(* carries a frame position from one file to the next.                     *)
(***************************************************************************)
NextReload ==
    \/ \E file \in Files : Len(loads) < MaxReloads /\ LoadRequest(file)
    \/ \E i \in 1..MaxReloads : ReadComplete(i)
    \/ \E i \in 1..MaxReloads : ReadError(i)
    \/ Play
    \/ \E ticks \in 1..MaxStep : Animate(ticks)

SpecReload == Init /\ [][NextReload]_vars

(***************************************************************************)
(* The parser on its own: a text is drawn and parse is applied to it.      *)
(***************************************************************************)
InitParse ==
    /\ content \in Texts
    /\ parsed = NotParsed
    /\ viewer = NewViewer("BVHViewer", FALSE)
    /\ loads = << >>
    /\ now = 0
    /\ outcome = Quiet

\* parser.parse(content)
Parse ==
    /\ parsed = NotParsed
    /\ parsed' = parse(content)
    /\ UNCHANGED <<content, viewer, loads, now, outcome>>

NextParse == Parse

SpecParse == InitParse /\ [][NextParse]_vars

(***************************************************************************)
(* ModelViewer with its three formats: BVH texts, and FBX and VRM models   *)
(* that a loader of the library reads.  A model is the index of its load.  *)
(***************************************************************************)
ModelFiles == {"walk.fbx", "avatar.vrm"}

FormatFiles == {"scenario.bvh"} \cup ModelFiles

\* the file type the extension gives
FileType(file) ==
    CASE file = "walk.fbx" -> "fbx"
      [] file = "avatar.vrm" -> "vrm"
      [] OTHER -> "bvh"

\* fbx.animations / gltf.animations is not empty
HasAnimations(file) == file = "walk.fbx"

\* loadFBXFile and loadVRMFile once the loader has resolved with a model
showModel(v, id, file) ==
    [v EXCEPT !.currentModel = [id |-> id],
              !.currentModelType = FileType(file),
              !.scene = @ \cup {id},
              !.mixer = IF HasAnimations(file) THEN [id |-> id] ELSE @,
              !.controlsEnabled = IF HasAnimations(file) THEN TRUE ELSE @]

\* the loader of load i resolves: the rest of loadFBXFile or loadVRMFile runs
ModelLoaded(i) ==
    /\ i \in Reading
    /\ loads[i].file \in ModelFiles
    /\ viewer' = showModel(viewer, i, loads[i].file)
    /\ loads' = [loads EXCEPT ![i].status = "shown"]
    /\ outcome' = Quiet
    /\ UNCHANGED <<content, parsed, now>>

InitFormats ==
    /\ content = << >>
    /\ parsed = NotParsed
    /\ viewer = NewViewer("ModelViewer", FALSE)
    /\ loads = << >>
    /\ now = 0
    /\ outcome = Quiet

NextFormats ==
    \/ \E file \in FormatFiles : Len(loads) < MaxFormatLoads /\ LoadRequest(file)
    \/ \E i \in Reading : loads[i].file \in Files /\ ReadComplete(i)
    \/ \E i \in 1..MaxFormatLoads : ModelLoaded(i)
    \/ \E i \in 1..MaxFormatLoads : ReadError(i)

SpecFormats == InitFormats /\ [][NextFormats]_vars

(***************************************************************************)
(* Audio and lip sync of the VRM viewer.  a is the record of audio fields. *)
(***************************************************************************)
\* stopLipSync: clearInterval and lipSyncInterval = null
stopLipSync(a) ==
    IF a.lipSyncInterval # Null
    THEN [a EXCEPT !.running = @ \ {a.lipSyncInterval.id}, !.lipSyncInterval = Null]
    ELSE a

\* startLipSync: setInterval unless the analyser or the VRM is missing (the
\* analyser is made with the audio buffer)
startLipSync(a, id) ==
    IF ~a.audioBuffer \/ ~a.vrm THEN a
    ELSE [a EXCEPT !.lipSyncInterval = [id |-> id], !.running = @ \cup {id}]

\* audioSource.stop(): a playing source stops and its ended event is queued
stopSource(sources, source) ==
    IF source # Null /\ sources[source.id] = "playing"
    THEN [sources EXCEPT ![source.id] = "ending"]
    ELSE sources

stopAudio(a) ==
    [stopLipSync([a EXCEPT !.sources = stopSource(@, a.audioSource),
                           !.audioSource = Null])
        EXCEPT !.playAudioBtnDisabled = FALSE, !.stopAudioBtnDisabled = TRUE]

\* playAudio after its guard: the source started is number id
startAudio(a, id) ==
    [startLipSync([a EXCEPT !.sources = Append(@, "playing"),
                            !.audioSource = [id |-> id]], id)
        EXCEPT !.playAudioBtnDisabled = TRUE, !.stopAudioBtnDisabled = FALSE]

playAudio(a) ==
    IF ~a.audioBuffer THEN a
    ELSE startAudio(stopAudio(a), Len(a.sources) + 1)

\* the onended handler playAudio gives its source
onended(a) ==
    [stopLipSync(a) EXCEPT !.playAudioBtnDisabled = FALSE, !.stopAudioBtnDisabled = TRUE]

\* an action on the audio fields alone
Audio(a) ==
    /\ viewer' = [viewer EXCEPT !.audio = a]
    /\ outcome' = Quiet
    /\ UNCHANGED <<content, parsed, loads, now>>

\* loadAudioFile once the file has been decoded
LoadAudio ==
    /\ viewer.kind = "ModelViewer"
    /\ Audio([viewer.audio EXCEPT !.audioBuffer = TRUE, !.playAudioBtnDisabled = FALSE])

\* a model file is picked: clearScene of loadFile
ClearForLoad == viewer.audio.vrm /\ Audio(stopAudio([viewer.audio EXCEPT !.vrm = FALSE]))

\* loadVRMFile once the loader has resolved
VRMLoaded == ~viewer.audio.vrm /\ Audio([viewer.audio EXCEPT !.vrm = TRUE])

\* a click on the play button
PlayAudio ==
    /\ ~viewer.audio.playAudioBtnDisabled
    /\ Len(viewer.audio.sources) < MaxSources
    /\ Audio(playAudio(viewer.audio))

\* a click on the stop button
StopAudio ==
    /\ ~viewer.audio.stopAudioBtnDisabled
    /\ Audio(stopAudio(viewer.audio))

\* source k plays its buffer to the end: its ended event is queued
RunsOut(k) ==
    /\ k \in 1..Len(viewer.audio.sources)
    /\ viewer.audio.sources[k] = "playing"
    /\ Audio([viewer.audio EXCEPT !.sources[k] = "ending"])

\* the ended event of source k is delivered: its onended handler runs
Ended(k) ==
    /\ k \in 1..Len(viewer.audio.sources)
    /\ viewer.audio.sources[k] = "ending"
    /\ Audio(onended([viewer.audio EXCEPT !.sources[k] = "ended"]))

NextAudio ==
    \/ LoadAudio
    \/ ClearForLoad
    \/ VRMLoaded
    \/ PlayAudio
    \/ StopAudio
    \/ \E k \in 1..MaxSources : RunsOut(k)
    \/ \E k \in 1..MaxSources : Ended(k)

SpecAudio == InitFormats /\ [][NextAudio]_vars

(***************************************************************************)
(* One pose on its own: a one-frame text is drawn, loaded into a new       *)
(* BVHViewer and shown at frame 0.  The texts turn a root about two axes   *)
(* in either order, or move joints with foot names up and down.            *)
(***************************************************************************)
\* the two rotation channels of a root, in each order
TurnOrders ==
    {<<a, b>> : a \in RotationChannels, b \in RotationChannels} \ {<<a, a>> : a \in RotationChannels}

TurnAngles == {"0", "90", "-90", "abc"}

TurnOffsets == {<<0, 20, 0>>, <<7, 7, 0 - 7>>, <<7, 0 - 7, 7>>, <<0, 0, 0>>}

\* a root turned by two rotation channels and a joint at an offset from it
TurnDoc(order, offset) ==
    Doc("ROOT", "Hips", <<1, 2, 3>>, 2, order,
        << Doc("JOINT", "Head", offset, 1, <<"Xposition">>, << >>) >>)

TurnText(order, offset, first, second) ==
    Text(TurnDoc(order, offset), Motion("1", "1", << <<first, second, "0">> >>))

TurnTexts ==
    {TurnText(order, offset, first, second) :
        order \in TurnOrders, offset \in TurnOffsets,
        first \in TurnAngles, second \in TurnAngles}

\* a root with a foot joint, a joint named like an End Site of a foot, and a
\* joint that is neither, each moved along y by its own channel
FootDoc ==
    Doc("ROOT", "Hips", <<0, 40, 0>>, 1, <<"Yposition">>,
        << Doc("JOINT", "LeftFoot", <<5, 0 - 40, 0>>, 1, <<"Yposition">>, << >>),
           Doc("JOINT", "EndSite_RightFoot", <<0 - 5, 0 - 40, 2>>, 1, <<"Yposition">>, << >>),
           Doc("JOINT", "Tail", <<0, 0 - 40, 0 - 9>>, 1, <<"Yposition">>, << >>) >>)

FootHeights == {"0", "6", "-6", "abc"}

FootTexts ==
    {Text(FootDoc, Motion("1", "1", << <<hips, left, right, tail>> >>)) :
        hips \in {"0", "abc"}, left \in FootHeights, right \in FootHeights,
        tail \in FootHeights}

PoseTexts ==
    TurnTexts \cup FootTexts \cup {Text(DocNoChannels, Motion("1", "1", <<<<"0">>>>))}

InitPose ==
    /\ content \in PoseTexts
    /\ parsed = NotParsed
    /\ viewer = NewViewer("BVHViewer", FALSE)
    /\ loads = << [file |-> "pose.bvh", status |-> "reading"] >>
    /\ now = 0
    /\ outcome = Quiet

\* loadBVHFile once the text has been read
Pose ==
    /\ 1 \in Reading
    /\ Deliver(1, parse(content))
    /\ UNCHANGED <<content, now>>

NextPose == Pose

SpecPose == InitPose /\ [][NextPose]_vars

(***************************************************************************)
(* Properties of the parser (checked under SpecParse).                     *)
(***************************************************************************)
\* parse has been applied to content
Parsed == parsed # NotParsed

\* the nodes of a tree in pre-order
RECURSIVE Nodes(_)
RECURSIVE NodesAll(_)
NodesAll(children) ==
    IF children = << >> THEN << >> ELSE Nodes(Head(children)) \o NodesAll(Tail(children))

Nodes(node) == <<node>> \o NodesAll(node.children)

RECURSIVE SeqSum(_)
SeqSum(q) == IF q = << >> THEN 0 ELSE Head(q) + SeqSum(Tail(q))

\* a node the parser built from an End Site line
FromEndSiteLine(node) ==
    node.type = "End Site" \/ (node.type = "End" /\ node.name = "Site")

\* the sum of channels.length over the non-EndSite joints of a tree
SumChannels(root) ==
    LET ns == Nodes(root) IN
    SeqSum([k \in 1..Len(ns) |->
               IF FromEndSiteLine(ns[k]) THEN 0 ELSE Len(ns[k].channels)])

\* the text's hierarchy section is a valid hierarchy: the printed form of a valid
\* document between the HIERARCHY line and the MOTION line
ValidHierarchyText(text) ==
    \E doc \in ValidDocs :
        LET lines == SplitLines(text)
            want == << <<"HIERARCHY">> >> \o Render(doc) \o << <<"MOTION">> >>
        IN  Len(lines) >= Len(want) /\ SubSeq(lines, 1, Len(want)) = want

\* C3: for any valid hierarchy text, the totalChannels parse returns is the sum
\* of channels.length over every non-EndSite joint of the tree it produced.
C3_TotalChannelsIsSum ==
    (Parsed /\ parsed.ok /\ ValidHierarchyText(content))
        => parsed.totalChannels = SumChannels(parsed.skeleton)

\* a valid text with nested joints was parsed and some channels were counted
C3_Witness ==
    /\ Parsed /\ parsed.ok /\ ValidHierarchyText(content)
    /\ Len(parsed.skeleton.children) = 2
    /\ parsed.skeleton.children[2].channels # << >>
    /\ parsed.totalChannels = 5

\* C4 as claimed: every frame of a returned result has exactly totalChannels
\* values (a text where a frame line has another width makes parse fail).
C4_FramesHaveTotalChannelsValues ==
    (Parsed /\ parsed.ok)
        => \A k \in 1..Len(parsed.motionData.frames) :
               Len(parsed.motionData.frames[k]) = parsed.totalChannels

\* the non-blank lines of the text, and the place of its first MOTION line
LinesOf(text) == SplitLines(text)

HasMotionLine(text) == \E i \in 1..Len(LinesOf(text)) : LinesOf(text)[i] = <<"MOTION">>

FirstMotionLine(text) ==
    Min({i \in 1..Len(LinesOf(text)) : LinesOf(text)[i] = <<"MOTION">>})

\* a line holds the text "Frames:" followed by digits
HasFramesPattern(line) ==
    \E i \in 1..Len(line) :
        line[i] = "Frames:" /\ i < Len(line) /\ line[i + 1] \in DigitTokens

\* a line holds the text "Frame Time:" followed by digits or dots
HasFrameTimePattern(line) ==
    \E i \in 1..Len(line) :
        /\ line[i] = "Frame" /\ i + 1 < Len(line)
        /\ line[i + 1] = "Time:" /\ line[i + 2] \in DigitDotTokens

FirstLineNotHierarchy(text) ==
    LinesOf(text) = << >> \/ LinesOf(text)[1] # <<"HIERARCHY">>

FramesLineBad(text) ==
    /\ HasMotionLine(text)
    /\ \/ FirstMotionLine(text) + 1 > Len(LinesOf(text))
       \/ ~HasFramesPattern(LinesOf(text)[FirstMotionLine(text) + 1])

FrameTimeLineBad(text) ==
    /\ HasMotionLine(text)
    /\ \/ FirstMotionLine(text) + 2 > Len(LinesOf(text))
       \/ ~HasFrameTimePattern(LinesOf(text)[FirstMotionLine(text) + 2])

\* C5: parse throws, and returns no result, when the first non-blank line is not
\* HIERARCHY, when no line equals MOTION, when the line after MOTION is missing or
\* is no Frames: line, and when the line after that is missing or is no
\* Frame Time: line.
C5_HeaderErrorsThrow ==
    (Parsed /\ (\/ FirstLineNotHierarchy(content)
                \/ ~HasMotionLine(content)
                \/ FramesLineBad(content)
                \/ FrameTimeLineBad(content)))
        => ~parsed.ok

\* each of the four cases arises with the hierarchy itself intact
C5_WitnessFrameTime ==
    /\ Parsed /\ ~parsed.ok
    /\ ~FirstLineNotHierarchy(content) /\ HasMotionLine(content)
    /\ ~FramesLineBad(content) /\ FrameTimeLineBad(content)
    /\ parsed.error = "missing or invalid Frame Time line"

\* the declared frame count of a text and the lines after its Frame Time line
DeclaredFrames(text) ==
    LET line == LinesOf(text)[FirstMotionLine(text) + 1]
    IN  NumeralValue[line[(CHOOSE i \in 1..Len(line) : line[i] = "Frames:") + 1]]

DataLines(text) ==
    SubSeq(LinesOf(text), FirstMotionLine(text) + 3, Len(LinesOf(text)))

RowValues(line) == [k \in 1..Len(line) |-> parseFloat(line[k])]

Smaller(a, b) == IF a < b THEN a ELSE b

\* C6: with N frames declared and k data lines after the Frame Time line, parse
\* succeeds, and frameCount and the length of frames are k when k < N and N
\* otherwise, the frames being the first lines in order.
C6_RealizedFrameCount ==
    (Parsed /\ content \in BaseTexts)
        => LET n == Smaller(DeclaredFrames(content), Len(DataLines(content)))
           IN  /\ parsed.ok
               /\ parsed.motionData.frameCount = n
               /\ Len(parsed.motionData.frames) = n
               /\ \A k \in 1..n :
                      parsed.motionData.frames[k] = RowValues(DataLines(content)[k])

\* 3 frames are declared and a single data line follows
C6_WitnessTruncated ==
    /\ Parsed /\ parsed.ok /\ content \in BaseTexts
    /\ DeclaredFrames(content) = 3 /\ Len(DataLines(content)) = 1
    /\ parsed.motionData.frameCount = 1

\* more data lines follow than are declared
C6_WitnessSurplus ==
    /\ Parsed /\ parsed.ok /\ content \in BaseTexts
    /\ DeclaredFrames(content) = 1 /\ Len(DataLines(content)) = 2
    /\ parsed.motionData.frameCount = 1

(***************************************************************************)
(* Properties of loading (checked under SpecReload).                       *)
(***************************************************************************)
\* what load i read, parsed
Result(i) == parse(Content(loads[i].file))

\* the bone table createBonesFromBVH builds for a tree
BoneTable(root) ==
    createBonesFromBVH(root, Null, <<0, 0, 0>>,
        [bones |-> << >>, meshes |-> << >>, boneConnections |-> << >>]).bones

\* C1: once no read is in flight and the load requested last has been shown,
\* the skeleton, the motion data and the bone table are those of that load,
\* whatever order the reads completed in.
C1_LastLoadWins ==
    (Reading = {} /\ loads # << >> /\ loads[Len(loads)].status = "shown")
        => /\ viewer.skeleton = Result(Len(loads)).skeleton
           /\ viewer.motionData = Result(Len(loads)).motionData
           /\ viewer.bones = BoneTable(Result(Len(loads)).skeleton)

\* skeleton, motionData, totalChannels and the bone table are all cleared
Cleared(v) ==
    /\ v.skeleton = Null
    /\ v.motionData = Null
    /\ v.totalChannels = 0
    /\ v.bones = << >>

\* skeleton, motionData, totalChannels and the bone table are those of the
\* parse result `result`
Holds(v, result) ==
    /\ v.skeleton = result.skeleton
    /\ v.motionData = result.motionData
    /\ v.totalChannels = result.totalChannels
    /\ v.skeleton # Null
    /\ v.bones = BoneTable(result.skeleton)

\* the four are all cleared or all those of one file shown earlier
PreviousOrCleared(v) ==
    \/ Cleared(v)
    \/ \E j \in 1..Len(loads) :
          loads[j].status = "shown" /\ Holds(v, Result(j))

\* C2: when parse throws for the file of a load, the viewer's skeleton,
\* motionData, totalChannels and bone table are afterwards either exactly those
\* of a file loaded before or all cleared.
C2_RejectedFilePublishesNothing ==
    [][\A i \in 1..MaxReloads :
          (i \in Reading /\ i \in DOMAIN loads' /\ loads'[i].status = "rejected")
              => PreviousOrCleared(viewer')]_vars

(***************************************************************************)
(* Properties of posing (checked under Spec).                              *)
(***************************************************************************)
\* frameIndex is a valid index into the loaded frames
ValidIndex(v, frameIndex) ==
    v.motionData # Null /\ FrameDefined(v.motionData.frames, frameIndex)

\* C7: a call of updateFrame with an index that is not valid (negative, at or
\* beyond frames.length, or with no motion loaded) returns without throwing and
\* leaves every sphere where it was.
C7_InvalidIndexIsNoOp ==
    [][(outcome'.handler = "updateFrame" /\ ~ValidIndex(viewer, outcome'.arg))
          => (~outcome'.threw /\ viewer'.meshes = viewer.meshes)]_vars

\* C8: no updateFrame call made by a load, by reset or by an animate tick throws.
C8_EvaluationNeverThrows ==
    outcome.handler \in {"load", "reset", "animate"} => ~outcome.threw

\* the joints of the tree that have a child built from an End Site line
EndSiteParents(root) ==
    {n \in {Nodes(root)[k] : k \in 1..Len(Nodes(root))} :
        \E c \in 1..Len(n.children) : FromEndSiteLine(n.children[c])}

\* C9: for every End Site leaf of the loaded hierarchy the bone table has an
\* entry keyed EndSite_<parentName> (whose sphere updateFrame then positions).
C9_EndSiteBones ==
    viewer.skeleton # Null
        => \A n \in EndSiteParents(viewer.skeleton) :
               EndSiteName(n.name) \in DOMAIN viewer.bones

\* the channels of the tree in the order updateFrame reads them
RECURSIVE ChannelsOf(_)
ChannelsOf(nodes) ==
    IF nodes = << >> THEN << >> ELSE Head(nodes).channels \o ChannelsOf(Tail(nodes))

\* every rotation channel of the tree reads 0 from frameData
ZeroRotationFrame(root, frameData) ==
    \A k \in 1..Len(ChannelsOf(Nodes(root))) :
        ChannelsOf(Nodes(root))[k] \in RotationChannels
            => FrameValue(frameData, k - 1) = 0

\* the sum of the values frameData holds for the position channels of one joint,
\* whose first channel reads at `cursor`, along `axis`
RECURSIVE PositionValue(_, _, _, _, _)
PositionValue(channels, i, cursor, frameData, axis) ==
    IF i > Len(channels) THEN 0
    ELSE Add(IF channels[i] = <<"Xposition", "Yposition", "Zposition">>[axis]
             THEN FrameValue(frameData, cursor) ELSE 0,
             PositionValue(channels, i + 1, cursor + 1, frameData, axis))

\* for each channel-bearing joint in pre-order: the offsets of the joint and its
\* ancestors plus their position-channel values; e = [cursor, positions]
RECURSIVE SumsOf(_, _, _, _)
RECURSIVE SumsOfAll(_, _, _, _, _)
SumsOfAll(children, k, base, frameData, e) ==
    IF k > Len(children) THEN e
    ELSE SumsOfAll(children, k + 1, base, frameData,
             SumsOf(children[k], base, frameData, e))

SumsOf(node, base, frameData, e) ==
    LET pos == [axis \in 1..3 |->
                   Add(Add(base[axis], node.offset[axis]),
                       PositionValue(node.channels, 1, e.cursor, frameData, axis))]
    IN  SumsOfAll(node.children, 1, <<pos[1], pos[2], pos[3]>>, frameData,
            [cursor |-> e.cursor + Len(node.channels),
             positions |-> IF Len(node.channels) > 0
                           THEN Append(e.positions, <<pos[1], pos[2], pos[3]>>)
                           ELSE e.positions])

OffsetSums(root, frameData) ==
    SumsOf(root, <<0, 0, 0>>, frameData, [cursor |-> 0, positions |-> << >>]).positions

\* some handler has just posed the valid frame outcome.arg
Posed ==
    /\ outcome.handler # "other"
    /\ ~outcome.threw
    /\ ValidIndex(viewer, outcome.arg)

\* C10: after updateFrame has posed a frame whose rotation values are all zero,
\* the sphere of each channel-bearing joint (the spheres are made in pre-order)
\* is at the sum of the offsets of the joint and its ancestors plus their
\* position-channel values; in the scenario Hip is at (0,0,0), Head at (0,20,0)
\* and totalChannels is 9.
C10_ZeroRotationPositions ==
    /\ (Posed /\ ZeroRotationFrame(viewer.skeleton,
                     FrameData(viewer.motionData.frames, outcome.arg)))
           => viewer.meshes =
                  OffsetSums(viewer.skeleton,
                             FrameData(viewer.motionData.frames, outcome.arg))
    /\ (outcome.handler = "load" /\ content = ScenarioText)
           => /\ viewer.meshes = <<<<0, 0, 0>>, <<0, 20, 0>>>>
              /\ viewer.boneOrder = <<"Hip", "Head">>
              /\ viewer.totalChannels = 9

\* the spheres as createBonesFromBVH leaves them, before any frame is posed
RestPose(root) ==
    createBonesFromBVH(root, Null, <<0, 0, 0>>,
        [bones |-> << >>, meshes |-> << >>, boneConnections |-> << >>]).meshes

\* the viewer v posed at frameIndex starting from the rest pose
FreshPose(v, frameIndex) ==
    updateFrame([v EXCEPT !.meshes = RestPose(v.skeleton)], frameIndex).viewer

\* C11: after any handler has posed an in-range frame i (directly, by reset or
\* by an animate tick, after whatever frames were posed before), the sphere
\* positions and the line points are those obtained by posing frame i from the
\* rest pose, and posing frame i once more changes none of them.
C11_UpdateFrameIsHistoryIndependent ==
    Posed
        => /\ viewer.meshes = FreshPose(viewer, outcome.arg).meshes
           /\ viewer.lines = FreshPose(viewer, outcome.arg).lines
           /\ updateFrame(viewer, outcome.arg).viewer.meshes = viewer.meshes

\* frame 0 has been posed by a direct call after playback had reached frame 1
C11_Witness ==
    /\ Posed
    /\ outcome.handler = "updateFrame"
    /\ outcome.arg = 0
    /\ viewer.currentFrame = 1
    /\ Len(viewer.meshes) > 1

(***************************************************************************)
(* Properties of scale normalisation.                                      *)
(***************************************************************************)
\* a load has just shown a file: the spheres are in the pose of frame 0, which
\* is the pose normalizeSkeletonScale measured
Loaded == outcome.handler = "load" /\ ~outcome.threw

\* head.y - foot.y as normalizeSkeletonScale measures it on viewer v
BodyHeight(v) == Sub(findHeadPosition(v)[2], findLowestFootPosition(v)[2])

\* head and foot are resolved and the body height exceeds 1
HeuristicApplies(v) ==
    /\ findHeadPosition(v) # Null
    /\ findLowestFootPosition(v) # Null
    /\ IsNum(BodyHeight(v))
    /\ BodyHeight(v) > 1

\* C12: when a load resolves a head and a foot and the body height exceeds 1,
\* (headY - footY) x scale = 160 and footY x scale + offsetY = -40, scale and
\* offsetY being the scale and the vertical position of the skeleton group.
C12_HeuristicScaleAndOffset ==
    (Loaded /\ HeuristicApplies(viewer))
        => /\ FMul(FromNum(BodyHeight(viewer)), viewer.skeletonGroup.scale)
                  = FromNum(160)
           /\ FAdd(FMul(FromNum(findLowestFootPosition(viewer)[2]),
                        viewer.skeletonGroup.scale),
                   viewer.skeletonGroup.position[2]) = FromNum(0 - 40)

\* the biped has been loaded: neck at 53, left foot at 3, scale 160/50
C12_Witness ==
    /\ Loaded
    /\ content = BipedText
    /\ HeuristicApplies(viewer)
    /\ BodyHeight(viewer) = 50
    /\ viewer.skeletonGroup.scale = Frac(16, 5)

\* the conditions under which normalizeSkeletonScale is to fall back
FallbackCondition(v) ==
    \/ findHeadPosition(v) = Null
    \/ findLowestFootPosition(v) = Null
    \/ (IsNum(BodyHeight(v)) /\ BodyHeight(v) <= 1)

\* the scale updateSkeletonLines gives the new spheres during a load: 1 over the
\* skeletonScale the viewer had before it, when that is truthy
SphereScaleAtLoad(before) ==
    IF Truthy(before.skeletonScale) THEN FDiv(One, before.skeletonScale) ELSE One

\* the group of v is scaled and placed by the bounding box of the spheres, whose
\* scale is sphereScale when the box is taken; with no sphere nothing is set
UsesBoundingBox(v, sphereScale) ==
    IF v.meshes = << >>
    THEN v.skeletonGroup.scale = One
    ELSE /\ v.skeletonGroup.scale =
                FDiv(FromNum(150), maxDimension([v EXCEPT !.meshScale = sphereScale]))
         /\ v.skeletonGroup.position[2] =
                FAdd(FNeg(FMul(center(v, 2), v.skeletonGroup.scale)), FromNum(50))

\* the group of v is scaled by 160 / (head.y - foot.y) and not moved sideways
UsesBodyHeight(v) ==
    /\ v.skeletonGroup.scale = FDiv(FromNum(160), FromNum(BodyHeight(v)))
    /\ v.skeletonScale = v.skeletonGroup.scale
    /\ v.skeletonGroup.position[1] = FromNum(0)

\* C13: a load scales by the bounding box exactly when no Head or Neck bone
\* exists, or no foot position is resolved, or head.y - foot.y <= 1, and by
\* 160 / (head.y - foot.y) in every other case; a skeleton with neither
\* Head/Neck nor a foot candidate is scaled by the bounding box.
C13_FallbackExactlyWhenHeuristicFails ==
    [][(outcome'.handler = "load" /\ ~outcome'.threw)
          => /\ IF FallbackCondition(viewer')
                THEN UsesBoundingBox(viewer', SphereScaleAtLoad(viewer))
                ELSE UsesBodyHeight(viewer')
             /\ (/\ "Head" \notin DOMAIN viewer'.bones
                 /\ "Neck" \notin DOMAIN viewer'.bones
                 /\ \A k \in 1..Len(footBoneNames) :
                        footBoneNames[k] \notin DOMAIN viewer'.bones)
                    => UsesBoundingBox(viewer', SphereScaleAtLoad(viewer))]_vars

\* a skeleton whose only bone is Head (body height 0) has been scaled by its box
C13_Witness ==
    /\ Loaded
    /\ findHeadPosition(viewer) # Null
    /\ findLowestFootPosition(viewer) # Null
    /\ BodyHeight(viewer) = 0
    /\ viewer.skeletonGroup.scale = FromNum(50)

\* the viewer a file's parse result gives when it is the first file loaded
LoadedAlone(kind, result) == createSkeleton(assign(NewViewer(kind, FALSE), result), 1)

\* C14: after a file has been loaded successfully, the joint tree, the motion
\* data, the bone table, skeletonScale and the group's scale and position are
\* what that file gives when loaded alone, and skeletonScale is the scale of
\* the skeleton group.
C14_NewFileReplacesDerivedState ==
    (Loaded /\ parsed.ok)
        => /\ viewer.skeleton = parsed.skeleton
           /\ viewer.motionData = parsed.motionData
           /\ viewer.bones = LoadedAlone(viewer.kind, parsed).bones
           /\ viewer.skeletonScale = LoadedAlone(viewer.kind, parsed).skeletonScale
           /\ viewer.skeletonGroup.scale =
                  LoadedAlone(viewer.kind, parsed).skeletonGroup.scale
           /\ viewer.skeletonGroup.position =
                  LoadedAlone(viewer.kind, parsed).skeletonGroup.position
           /\ viewer.skeletonScale = viewer.skeletonGroup.scale

\* C15: a step that is not part of a load (updateFrame, play, pause, reset, an
\* animate tick, the speed slider) leaves skeletonScale, the skeleton group's
\* scale and position, the joint tree and the motion data as they were.
C15_PosingKeepsScaleAndData ==
    [][loads' = loads
          => /\ viewer'.skeletonScale = viewer.skeletonScale
             /\ viewer'.skeletonGroup = viewer.skeletonGroup
             /\ viewer'.skeleton = viewer.skeleton
             /\ viewer'.motionData = viewer.motionData]_vars

\* an animate tick has posed frame 1 of the scenario, whose scale is still 8
C15_Witness ==
    /\ Posed
    /\ outcome.handler = "animate"
    /\ outcome.arg = 1
    /\ content = ScenarioText
    /\ viewer.meshes = <<<<7, 7, 7>>, <<7, 27, 7>>>>
    /\ viewer.skeletonScale = FromNum(8)
    /\ viewer.skeletonGroup.scale = FromNum(8)

(***************************************************************************)
(* Further properties of the parser (checked under SpecParse).             *)
(***************************************************************************)
\* the declarations of a document in pre-order
RECURSIVE DocNodes(_)
RECURSIVE DocNodesAll(_)
DocNodesAll(docs) ==
    IF docs = << >> THEN << >> ELSE DocNodes(Head(docs)) \o DocNodesAll(Tail(docs))

DocNodes(doc) == <<doc>> \o DocNodesAll(doc.children)

\* the kind and the name a node is to have for its declaration
DeclaredAs(doc) ==
    IF doc.kind = "End Site"
    THEN [type |-> "End Site", name |-> "End Site"]
    ELSE [type |-> doc.kind, name |-> doc.name]

\* C16: in the tree parsed from a well-formed text, the node of every End Site
\* declaration has type 'End Site' and name 'End Site', and the node of every
\* ROOT or JOINT declaration has that kind and the declared name.
C16_NodeKindsAndNames ==
    \A doc \in ValidDocs :
        (Parsed /\ parsed.ok /\ content \in TextsOf(doc))
            => /\ Len(Nodes(parsed.skeleton)) = Len(DocNodes(doc))
               /\ \A k \in 1..Len(DocNodes(doc)) :
                      /\ Nodes(parsed.skeleton)[k].type = DeclaredAs(DocNodes(doc)[k]).type
                      /\ Nodes(parsed.skeleton)[k].name = DeclaredAs(DocNodes(doc)[k]).name

\* C17: when fewer data lines follow the Frame Time line than the Frames: line
\* declares, parse succeeds with the frames found and a warning is written.
C17_ShortfallIsWarned ==
    (Parsed /\ content \in BaseTexts
        /\ Len(DataLines(content)) < DeclaredFrames(content))
        => /\ parsed.ok
           /\ parsed.motionData.frameCount = Len(DataLines(content))
           /\ parsed.warnings # << >>

\* line k of the lines (counted from 1) declares a node: the line after
\* HIERARCHY, or a line that starts with JOINT or End Site
IsDeclaration(lines, k) ==
    k = 2 \/ StartsWith(lines[k], "JOINT") \/ StartsWithEndSite(lines[k])

\* the number of nodes open after line j: declarations less closing braces
OpenNodes(lines, j) ==
    Cardinality({i \in 2..j : IsDeclaration(lines, i)})
        - Cardinality({i \in 2..j : lines[i] = <<"}">>})

\* the hierarchy parser comes to line k as a declaration: every declaration
\* before it is followed by '{' and the root is still open
DeclarationReached(lines, k) ==
    /\ lines[1] = <<"HIERARCHY">>
    /\ IsDeclaration(lines, k)
    /\ \A j \in 2..(k - 1) :
           /\ IsDeclaration(lines, j) => lines[j + 1] = <<"{">>
           /\ OpenNodes(lines, j) > 0

\* the kind and name the message gives for the declaration on `line`
DeclarationText(line, k) ==
    Part(line, 0) \o " "
        \o (IF k # 2 /\ Part(line, 1) = Undefined THEN "End Site" ELSE Part(line, 1))

\* C18: when the line after a ROOT, JOINT or End Site declaration the parser
\* comes to is not '{', parse throws an error whose message names '{' and the
\* line found; when the text ends with the declaration line, parse throws too.
C18_MissingOpeningBraceThrows ==
    Parsed
        => \A k \in 2..Len(SplitLines(content)) :
               LET lines == SplitLines(content) IN
               DeclarationReached(lines, k)
                   => /\ (k = Len(lines))
                          => /\ ~parsed.ok
                             /\ parsed.error = "Unexpected end of file after "
                                                   \o DeclarationText(lines[k], k)
                      /\ (k < Len(lines) /\ lines[k + 1] # <<"{">>)
                          => /\ ~parsed.ok
                             /\ parsed.error =
                                    "Expected '{' after " \o DeclarationText(lines[k], k)
                                        \o ", but found: \"" \o LineText(lines[k + 1])
                                        \o "\" at line " \o ToString(k)

\* the scenario without the '{' of JOINT Head: the error names the OFFSET line
C18_Witness ==
    /\ Parsed
    /\ ~parsed.ok
    /\ Len(SplitLines(content)) > 6
    /\ DeclarationReached(SplitLines(content), 6)
    /\ SplitLines(content)[6] = <<"JOINT", "Head">>
    /\ parsed.error = "Expected '{' after JOINT Head, but found: \"OFFSET 0 20 0\" at line 6"

\* the sum of the counts declared on the CHANNELS lines of the text
DeclaredChannels(lines) ==
    SeqSum([k \in 1..Len(lines) |->
               IF StartsWith(lines[k], "CHANNELS") THEN parseInt(Part(lines[k], 1))
               ELSE 0])

\* every declaration of the text is followed by '{', and at the end of the
\* text at least one node has not been closed
LacksClosingBraces(lines) ==
    /\ Len(lines) >= 2
    /\ lines[1] = <<"HIERARCHY">>
    /\ \A j \in 2..Len(lines) :
           /\ IsDeclaration(lines, j) => (j < Len(lines) /\ lines[j + 1] = <<"{">>)
           /\ OpenNodes(lines, j) > 0

\* the text has a MOTION line followed by a Frames: and a Frame Time: line
MotionHeaderValid(text) ==
    HasMotionLine(text) /\ ~FramesLineBad(text) /\ ~FrameTimeLineBad(text)

\* C19: a text whose hierarchy lacks closing braces but has a MOTION line with
\* valid Frames: and Frame Time: lines is parsed without error, and
\* totalChannels is the sum of the counts declared on all its CHANNELS lines.
C19_MissingClosingBraceTolerated ==
    (Parsed /\ LacksClosingBraces(SplitLines(content)) /\ MotionHeaderValid(content))
        => /\ parsed.ok
           /\ parsed.totalChannels = DeclaredChannels(SplitLines(content))

\* the scenario without the '}' that closes its End Site: 9 channels all the same
C19_Witness ==
    /\ Parsed
    /\ content = DropLine(ScenarioText, 13)
    /\ ScenarioText[13] = <<"}">>
    /\ LacksClosingBraces(SplitLines(content))
    /\ MotionHeaderValid(content)
    /\ parsed.ok
    /\ parsed.totalChannels = 9

(***************************************************************************)
(* The order in which updateFrame reads the frame's values.                *)
(***************************************************************************)
\* the number of values the subtree of `node` takes: channels.length over its
\* joints, nothing for a node built from an End Site line
Columns(node) == SumChannels(node)

\* the local transform of a joint whose first channel is column `base`
\* (counted from 0): channel k takes the value of column base + k - 1
RECURSIVE LocalByColumns(_, _, _, _, _)
LocalByColumns(channels, k, base, frameData, local) ==
    IF k > Len(channels) THEN local
    ELSE LocalByColumns(channels, k + 1, base, frameData,
             IF channels[k] \in ChannelNames
             THEN multiplyMatrices(local,
                      ChannelMatrix(channels[k], FrameValue(frameData, base + k - 1)))
             ELSE local)

\* the positions of the channel-bearing joints of a subtree in pre-order, the
\* columns of each joint being fixed by the joints before it in pre-order
RECURSIVE PoseByColumns(_, _, _, _)
RECURSIVE PoseByColumnsAll(_, _, _, _, _)
PoseByColumnsAll(children, k, world, base, frameData) ==
    IF k > Len(children) THEN << >>
    ELSE PoseByColumns(children[k], world, base, frameData)
         \o PoseByColumnsAll(children, k + 1, world,
                base + Columns(children[k]), frameData)

PoseByColumns(node, parentWorld, base, frameData) ==
    LET used == IF FromEndSiteLine(node) THEN 0 ELSE Len(node.channels)
        world == multiplyMatrices(parentWorld,
                     LocalByColumns(node.channels, 1, base, frameData,
                         makeTranslation(node.offset[1], node.offset[2],
                                         node.offset[3])))
    IN  (IF used > 0 THEN << setFromMatrixPosition(world) >> ELSE << >>)
        \o PoseByColumnsAll(node.children, 1, world, base + used, frameData)

\* no two joints of the bone table share a name: each sphere has its own entry
EachSphereHasItsEntry(v) == Len(v.meshes) = Cardinality(DOMAIN v.bones)

Quarter(channel, p) ==
    CASE channel = "Xrotation" -> <<p[1], 0 - p[3], p[2]>>
      [] channel = "Yrotation" -> <<p[3], p[2], 0 - p[1]>>
      [] channel = "Zrotation" -> <<0 - p[2], p[1], p[3]>>

RECURSIVE Quarters(_, _, _)
Quarters(channel, times, p) ==
    IF times = 0 THEN p ELSE Quarters(channel, times - 1, Quarter(channel, p))

\* a point turned by a multiple of 90 degrees about an axis
Turned(channel, degrees, p) == Quarters(channel, (degrees % 360) \div 90, p)

\* a text of TurnTexts with numbers for both angles has been loaded
TurnLoaded ==
    /\ content \in TurnTexts
    /\ Loaded
    /\ \A k \in 1..2 : IsNum(parsed.motionData.frames[1][k])

TurnOrder == parsed.skeleton.channels

TurnAngle(k) == parsed.motionData.frames[1][k]

TurnOffset == parsed.skeleton.children[1].offset

\* the same text with the two rotation channels in the other order, each axis
\* keeping its angle
SwappedText ==
    TurnText(<<TurnOrder[2], TurnOrder[1]>>, TurnOffset, content[15][2], content[15][1])

\* the joint's position when the text with the channels swapped is loaded
SwappedPosition == LoadedAlone("BVHViewer", parse(SwappedText)).meshes[2]

\* the two rotations give the offset the same image in either order
Commute ==
    Turned(TurnOrder[1], TurnAngle(1), Turned(TurnOrder[2], TurnAngle(2), TurnOffset))
        = Turned(TurnOrder[2], TurnAngle(2), Turned(TurnOrder[1], TurnAngle(1), TurnOffset))

AlongOneAxis(p) == Cardinality({k \in 1..3 : p[k] # 0}) = 1

\* C21: the root stays at its offset and its child lies at the root's offset plus
\* the child's offset turned by the root's last rotation channel and then by its
\* first; swapping the two rotation channels moves the child exactly when the two
\* rotations do not commute on the child's offset, which they do not for quarter
\* turns about two axes and an offset along one axis, and which they do for
\* quarter turns about Z and X and the offset (7, 7, -7).
C21_ChannelOrderIsRespected ==
    TurnLoaded
        => /\ viewer.meshes[1] = <<1, 2, 3>>
           /\ viewer.meshes[2] =
                  LET p == Turned(TurnOrder[1], TurnAngle(1),
                               Turned(TurnOrder[2], TurnAngle(2), TurnOffset))
                  IN  <<1 + p[1], 2 + p[2], 3 + p[3]>>
           /\ (viewer.meshes[2] # SwappedPosition) <=> ~Commute
           /\ (/\ \A k \in 1..2 : TurnAngle(k) \in {90, 0 - 90}
               /\ AlongOneAxis(TurnOffset)) => viewer.meshes[2] # SwappedPosition
           /\ (/\ TurnOrder = <<"Zrotation", "Xrotation">>
               /\ \A k \in 1..2 : TurnAngle(k) = 90
               /\ TurnOffset = <<7, 7, 0 - 7>>) => viewer.meshes[2] = SwappedPosition

\* quarter turns about Z and then X have been applied to a child 20 above the root
C21_Witness ==
    /\ TurnLoaded
    /\ TurnOrder = <<"Zrotation", "Xrotation">>
    /\ TurnAngle(1) = 90 /\ TurnAngle(2) = 90
    /\ TurnOffset = <<0, 20, 0>>
    /\ viewer.meshes[2] = <<1, 2, 23>>
    /\ SwappedPosition = <<0 - 19, 2, 3>>

\* C21 as stated: for non-zero rotations about two axes and a non-zero offset of
\* the child, swapping the two rotation channels changes the child's position.
C21_SwapAlwaysMoves ==
    (/\ TurnLoaded
     /\ \A k \in 1..2 : TurnAngle(k) # 0
     /\ TurnOffset # <<0, 0, 0>>) => viewer.meshes[2] # SwappedPosition

(***************************************************************************)
(* End Sites, the foot and the bone table after a load (checked under      *)
(* Spec, SpecPose and SpecParse).                                          *)
(***************************************************************************)
\* the End Sites of a subtree, each with the position its offset has under the
\* world transform of its parent joint
RECURSIVE EndSitesByColumns(_, _, _, _)
RECURSIVE EndSitesByColumnsAll(_, _, _, _, _)
EndSitesByColumnsAll(children, k, world, base, frameData) ==
    IF k > Len(children) THEN {}
    ELSE EndSitesByColumns(children[k], world, base, frameData)
         \cup EndSitesByColumnsAll(children, k + 1, world,
                  base + Columns(children[k]), frameData)

EndSitesByColumns(node, parentWorld, base, frameData) ==
    LET world == multiplyMatrices(parentWorld,
                     LocalByColumns(node.channels, 1, base, frameData,
                         makeTranslation(node.offset[1], node.offset[2],
                                         node.offset[3])))
    IN  {[name |-> EndSiteName(node.name),
          pos |-> setFromMatrixPosition(multiplyMatrices(world,
                      makeTranslation(node.children[c].offset[1],
                                      node.children[c].offset[2],
                                      node.children[c].offset[3])))] :
            c \in {c \in 1..Len(node.children) : FromEndSiteLine(node.children[c])}}
        \cup EndSitesByColumnsAll(node.children, 1, world,
                 base + (IF FromEndSiteLine(node) THEN 0 ELSE Len(node.channels)),
                 frameData)

\* C22: after a frame has been posed, the position recorded for each End Site
\* is its offset under the world transform of its parent joint, rotations
\* included.
C22_EndSiteUnderParentTransform ==
    Posed
        => \A e \in EndSitesByColumns(viewer.skeleton, Identity4, 0,
                        FrameData(viewer.motionData.frames, outcome.arg)) :
               /\ e.name \in DOMAIN viewer.bones
               /\ viewer.meshes[viewer.bones[e.name].sphere] = e.pos

\* the names of a sequence that are keys of the bone table
Named(v, names) == {names[k] : k \in 1..Len(names)} \cap DOMAIN v.bones

\* the bones whose name is in either candidate list
FootCandidates(v) == Named(v, footBoneNames) \cup Named(v, footEndSiteNames)

\* the bones among `names` whose vertical coordinate is a number
WithHeight(v, names) == {n \in names : IsNum(BonePosition(v, n)[2])}

\* `position` is that of a bone among `names` and none of them lies lower
LowestOf(v, names, position) ==
    /\ \E n \in names : BonePosition(v, n) = position
    /\ \A n \in names : ~Lt(BonePosition(v, n)[2], position[2])

\* C23: findLowestFootPosition returns the lowest position among the bones of
\* the two candidate lists whose vertical coordinate is a number; when there is
\* none (no candidate in the table, or only candidates whose vertical coordinate
\* is not a number) it returns the lowest among all bones whose vertical
\* coordinate is a number; it returns nothing exactly when no bone has a number
\* for its vertical coordinate.
C23_LowestFootAmongNumbers ==
    Loaded
        => LET found == findLowestFootPosition(viewer)
               feet == WithHeight(viewer, FootCandidates(viewer))
               all == WithHeight(viewer, DOMAIN viewer.bones)
           IN  /\ feet # {} => (found # Null /\ LowestOf(viewer, feet, found))
               /\ (feet = {} /\ all # {})
                      => (found # Null /\ LowestOf(viewer, all, found))
               /\ found = Null <=> all = {}

\* a candidate of each list and a lower joint that is no candidate: the foot is
\* the lower candidate
C23_Witness ==
    /\ Loaded
    /\ content = Text(FootDoc, Motion("1", "1", << <<"0", "6", "0", "-6">> >>))
    /\ FootCandidates(viewer) = {"LeftFoot", "EndSite_RightFoot"}
    /\ BonePosition(viewer, "Tail") = <<0, 0 - 6, 0 - 9>>
    /\ findLowestFootPosition(viewer) = <<0 - 5, 0, 2>>

\* C23 as stated: the lowest position among the bones of the two candidate
\* lists; the lowest among all bones only when no candidate is in the table;
\* nothing only when the table is empty.
C23_LowestFootAmongCandidates ==
    Loaded
        => LET found == findLowestFootPosition(viewer)
               feet == FootCandidates(viewer)
           IN  /\ feet # {} => (found # Null /\ LowestOf(viewer, feet, found))
               /\ (feet = {} /\ DOMAIN viewer.bones # {})
                      => (found # Null /\ LowestOf(viewer, DOMAIN viewer.bones, found))
               /\ found = Null => DOMAIN viewer.bones = {}

\* the joints of a tree that carry at least one channel, in pre-order
ChannelJoints(root) ==
    SelectSeq(Nodes(root), LAMBDA n : Len(n.channels) > 0 /\ ~FromEndSiteLine(n))

\* C24: after a successful load the bone table has one entry per joint with at
\* least one channel: as many entries as such joints, each joint under its own
\* name with a back-reference to its own definition and a sphere of its own.
C24_OneEntryPerJoint ==
    Loaded
        => LET joints == ChannelJoints(viewer.skeleton)
           IN  /\ Cardinality(DOMAIN viewer.bones) = Len(joints)
               /\ \A k \in 1..Len(joints) :
                      /\ joints[k].name \in DOMAIN viewer.bones
                      /\ viewer.bones[joints[k].name].node = joints[k]
                      /\ viewer.bones[joints[k].name].sphere = k

\* C25: in every result parse returns, motionData.frameTime is a number greater
\* than 0.
C25_FrameTimeIsPositive ==
    (Parsed /\ parsed.ok)
        => /\ IsNum(parsed.motionData.frameTime)
           /\ parsed.motionData.frameTime > 0

(***************************************************************************)
(* The frame position across loads and pauses (checked under SpecReload    *)
(* and Spec).                                                              *)
(***************************************************************************)
\* C26: whenever a motion with at least one frame is loaded, currentFrame is an
\* integer from 0 to frameCount - 1.
C26_CurrentFrameInRange ==
    (viewer.motionData # Null /\ viewer.motionData.frameCount >= 1)
        => /\ IsNum(viewer.currentFrame)
           /\ viewer.currentFrame >= 0
           /\ viewer.currentFrame < viewer.motionData.frameCount

\* an animate tick: the only step that moves the clock
Ticked == now' # now

\* C27: while isPlaying is false no animate tick changes currentFrame,
\* frameAccumulator or a sphere's position, and the first animate tick after
\* play (lastFrameTime is 0) leaves frameAccumulator and currentFrame as they
\* were, whatever time has passed.
C27_PausedTimeNeverCounts ==
    [][/\ (Ticked /\ ~viewer.isPlaying)
              => /\ viewer'.currentFrame = viewer.currentFrame
                 /\ viewer'.frameAccumulator = viewer.frameAccumulator
                 /\ viewer'.meshes = viewer.meshes
       /\ (Ticked /\ viewer.isPlaying /\ viewer.lastFrameTime = 0)
              => /\ viewer'.currentFrame = viewer.currentFrame
                 /\ viewer'.frameAccumulator = viewer.frameAccumulator]_vars

(***************************************************************************)
(* Models in the scene of ModelViewer (checked under SpecFormats).         *)
(***************************************************************************)
\* the objects of the scene that clearScene would remove
Referenced(v) ==
    (IF v.skeletonGroup # Null THEN {v.skeletonGroup.id} ELSE {})
    \cup (IF v.currentModel # Null THEN {v.currentModel.id} ELSE {})

\* C28: once no load is in flight the scene holds at most one model, and every
\* model in the scene is the one skeletonGroup or currentModel refers to.
C28_OneModelInScene ==
    (viewer.kind = "ModelViewer" /\ Reading = {})
        => /\ Cardinality(viewer.scene) <= 1
           /\ viewer.scene \subseteq Referenced(viewer)

(***************************************************************************)
(* Progress of the parser (checked under SpecParse).                       *)
(***************************************************************************)
\* the frame counts a Frames line is read with
FrameCounts == 0..4

\* C29: parse returns a result or throws on every text; from every line a call
\* of parseNode either throws or returns with the cursor at least two lines
\* further and not beyond the end; the body loop never moves the cursor back and
\* moves it forward whenever it runs; the frame loop reads at most frameCount
\* lines and at most the lines that are left.
C29_ParsingTerminates ==
    Parsed
        => LET lines == SplitLines(content) IN
           /\ parsed = parse(content)
           /\ parsed.ok \/ parsed.error # ""
           /\ \A index \in 0..Len(lines) : \A isRoot \in BOOLEAN :
                  LET r == parseNode(lines, index, isRoot)
                  IN  r.ok => (r.index >= index + 2 /\ r.index <= Len(lines))
           /\ \A index \in 0..Len(lines) :
                  LET r == parseNodeBody(lines, index, NoNode, 0)
                  IN  r.ok => /\ r.index >= index
                              /\ r.index <= Len(lines)
                              /\ index < Len(lines) => r.index > index
           /\ \A index \in 0..Len(lines) : \A frameCount \in FrameCounts :
                  LET frames == ReadFrames(lines, index, 0, frameCount, << >>)
                  IN  Len(frames) <= frameCount /\ Len(frames) <= Len(lines) - index

\* the scenario has been parsed: the root's parseNode, through two nested
\* calls, went from line 1 to line 15, and of the three lines after the Frame
\* Time line a frame loop with frameCount 2 reads two
C29_Witness ==
    /\ Parsed
    /\ content = ScenarioText
    /\ parsed.ok
    /\ parseNode(SplitLines(content), 1, TRUE).index = 15
    /\ Len(parsed.motionData.frames) = 3
    /\ Len(ReadFrames(SplitLines(content), 18, 0, 2, << >>)) = 2

(***************************************************************************)
(* Lip sync while audio plays (checked under SpecAudio).                   *)
(***************************************************************************)
\* a source is playing on a loaded VRM
PlayingOnVRM(a) == a.vrm /\ \E k \in 1..Len(a.sources) : a.sources[k] = "playing"

\* the lip-sync timer is running, the play button disabled, the stop button enabled
LipSynced(a) ==
    /\ a.lipSyncInterval # Null
    /\ a.lipSyncInterval.id \in a.running
    /\ a.playAudioBtnDisabled
    /\ ~a.stopAudioBtnDisabled

\* C30: when playAudio starts a source on a loaded VRM the lip-sync timer is
\* running, the play button is disabled and the stop button is enabled, and
\* they stay so for as long as a source is playing on the VRM, whenever the
\* ended callback of a source stopped earlier is delivered.
C30_LipSyncWhilePlaying ==
    [][/\ (viewer.audio.vrm /\ Len(viewer'.audio.sources) > Len(viewer.audio.sources))
              => LipSynced(viewer'.audio)
       /\ (PlayingOnVRM(viewer.audio) /\ LipSynced(viewer.audio)
              /\ PlayingOnVRM(viewer'.audio))
              => LipSynced(viewer'.audio)]_vars

====
